---- MODULE Spec2Model ----
(***************************************************************************)
(* Locadora: reservation lifecycle, availability engine, fleet, customers  *)
(* and fines of src/app.py over the schema of src/init_db.py.              *)
(* Dates are day numbers, odometers are small naturals.                    *)
(* The rates of a vehicle (diaria, preco_km) are whole currency units;     *)
(* every amount of money typed by the operator or stored in reservas is    *)
(* held in half units (0.50), so that half a daily rate is exact: an       *)
(* amount a of the program is the integer 2 * a here.                      *)
(*                                                                         *)
(* A click starts one script run.  The run rebuilds the page with one      *)
(* query after the other, each in a transaction and on a connection of     *)
(* its own, and then runs the handler of the button.  Every action below   *)
(* is one transaction of a run together with the Python that follows it    *)
(* up to the next transaction; sess[s] holds what the run of session s     *)
(* has read so far.  A widget hands its value to the run at the point      *)
(* where the script reaches it.                                            *)
(***************************************************************************)
EXTENDS Integers, Sequences, FiniteSets, TLC

(* ---------------------------- bounds ----------------------------------- *)
NumCarros == 2
NumClientes == 1
MaxReservas == 2
MaxDia == 1
MaxKm == 1
NumSessoes == 2
MaxExtra == 1
DiariaPadrao == 2
PrecoKmPadrao == 1
AvailReservas == 2
MaxMultas == 2
MaxCarros == 3
MaxClientes == 2

Carros == 1..NumCarros
Clientes == 1..NumClientes
Dias == 0..MaxDia
Kms == 0..MaxKm
Sessoes == 1..NumSessoes

(* ---------------------- status vocabularies ---------------------------- *)
STATUS_CARRO ==
  [DISPONIVEL |-> "Disponivel", LOCADO |-> "Locado", RESERVADO |-> "Reservado",
   INDISPONIVEL |-> "Indisponivel", EXCLUIDO |-> "Excluido"]

STATUS_CLIENTE ==
  [ATIVO |-> "Ativo", INATIVO |-> "Inativo", REMOVIDO |-> "Removido"]

STATUS_RESERVA ==
  [RESERVADA |-> "Reservada", LOCADA |-> "Locada", CANCELADA |-> "Cancelada",
   FINALIZADA |-> "Finalizada"]

StatusCarroValues ==
  {STATUS_CARRO.DISPONIVEL, STATUS_CARRO.LOCADO, STATUS_CARRO.RESERVADO,
   STATUS_CARRO.INDISPONIVEL, STATUS_CARRO.EXCLUIDO}

StatusReservaValues ==
  {STATUS_RESERVA.RESERVADA, STATUS_RESERVA.LOCADA, STATUS_RESERVA.CANCELADA,
   STATUS_RESERVA.FINALIZADA}

\* km_volta is a nullable INTEGER column; NULL is kept below every odometer.
NULL == -1

\* "Horario da entrega" opens at 09:00; a time of day is its hour
HorarioPadrao == 9
KmFranquiaPadrao == 300

\* licence plates as typed; a text field left empty is ""
PlacasMaiusculas == <<"AAA0001", "AAA0002", "AAA0003", "AAA0004">>

\* str.upper() on the plates of the model
upper(placa) ==
  IF placa = "aaa0001" THEN "AAA0001" ELSE placa

VARIABLES
  carros,     \* table carros:   id -> [status, km_atual, diaria, preco_km, placa]
  clientes,   \* table clientes: id -> [status, validade_cnh, cpf, rg]
  reservas,   \* table reservas: sequence indexed by id (BIGSERIAL, 1..)
  hoje,       \* date.today()
  ui,         \* what the last handler reported to the operator
  consulta,   \* last availability query and its result
  sess,       \* per-session script run between its transactions
  multas,     \* table multas: sequence indexed by id, [reserva_id, status]
  multas_carros_result  \* st.session_state.multas_carros_result of each session

vars == <<carros, clientes, reservas, hoje, ui, consulta, sess, multas, multas_carros_result>>

Ids == DOMAIN reservas

(* ------------------------ availability engine -------------------------- *)
\* rows of reservas that count as booked
Ativas(rs) ==
  {i \in DOMAIN rs :
     rs[i].reserva_status \in {STATUS_RESERVA.RESERVADA, STATUS_RESERVA.LOCADA}}

\* variant that ignores the turnover flag and always compares inclusively
get_available_vehicles_sem_turnover(cs, rs, data_inicio, data_fim, permitir_dia_devolucao) ==
  LET ocupados ==
        {rs[i].carro_id : i \in
           {j \in Ativas(rs) : rs[j].data_inicio <= data_fim
                               /\ rs[j].data_fim >= data_inicio}}
  IN {c \in DOMAIN cs :
        /\ cs[c].status \notin {STATUS_CARRO.INDISPONIVEL, STATUS_CARRO.EXCLUIDO}
        /\ c \notin ocupados}

get_available_vehicles(cs, rs, data_inicio, data_fim, permitir_dia_devolucao) ==
  LET ocupados ==
        IF permitir_dia_devolucao
        THEN {rs[i].carro_id : i \in
                {j \in Ativas(rs) : rs[j].data_inicio < data_fim
                                    /\ rs[j].data_fim > data_inicio}}
        ELSE {rs[i].carro_id : i \in
                {j \in Ativas(rs) : rs[j].data_inicio <= data_fim
                                    /\ rs[j].data_fim >= data_inicio}}
  IN {c \in DOMAIN cs :
        /\ cs[c].status \notin {STATUS_CARRO.INDISPONIVEL, STATUS_CARRO.EXCLUIDO}
        /\ c \notin ocupados}

\* variant that counts the excluded reservation as well
check_vehicle_availability_sem_exclusao(rs, carro_id, data_inicio, data_fim, reserva_id_to_exclude) ==
  LET conflitos ==
        {i \in Ativas(rs) :
           /\ rs[i].carro_id = carro_id
           /\ rs[i].data_inicio <= data_fim
           /\ rs[i].data_fim >= data_inicio}
  IN Cardinality(conflitos) = 0

\* reserva_id_to_exclude = 0 stands for None (no id is 0, and 0 is falsy)
check_vehicle_availability(rs, carro_id, data_inicio, data_fim, reserva_id_to_exclude) ==
  LET conflitos ==
        {i \in Ativas(rs) :
           /\ rs[i].carro_id = carro_id
           /\ rs[i].data_inicio <= data_fim
           /\ rs[i].data_fim >= data_inicio
           /\ (reserva_id_to_exclude # 0 => i # reserva_id_to_exclude)}
  IN Cardinality(conflitos) = 0

(* ------------------------- rows and results ---------------------------- *)
Max(a, b) == IF a >= b THEN a ELSE b

\* money columns of a reservas row; amounts are in half units
Fin(km_franquia, adiantamento, pagamento_parcial_entrega, custo_lavagem, valor_multas, valor_danos, valor_outros, desconto_cliente, meia_diaria, total_diarias, valor_total, valor_restante) ==
  [km_franquia |-> km_franquia, adiantamento |-> adiantamento,
   pagamento_parcial_entrega |-> pagamento_parcial_entrega,
   custo_lavagem |-> custo_lavagem, valor_multas |-> valor_multas,
   valor_danos |-> valor_danos, valor_outros |-> valor_outros,
   desconto_cliente |-> desconto_cliente, meia_diaria |-> meia_diaria,
   total_diarias |-> total_diarias, valor_total |-> valor_total,
   valor_restante |-> valor_restante]

Reserva(carro, cliente, ini, fim, status, rstatus, kms, kmv, fin, horario_entrega) ==
  [carro_id |-> carro, cliente_id |-> cliente, data_inicio |-> ini,
   data_fim |-> fim, status |-> status, reserva_status |-> rstatus,
   km_saida |-> kms, km_volta |-> kmv, fin |-> fin,
   horario_entrega |-> horario_entrega]

Carro(status, km_atual, diaria, preco_km, placa) ==
  [status |-> status, km_atual |-> km_atual, diaria |-> diaria, preco_km |-> preco_km,
   placa |-> placa]

\* rg = "" is a NULL rg
Cliente(status, validade_cnh, cpf, rg) ==
  [status |-> status, validade_cnh |-> validade_cnh, cpf |-> cpf, rg |-> rg]

\* the fleet and the customers the installations of the model start from
CarroPadrao(c) ==
  Carro(STATUS_CARRO.DISPONIVEL, 0, DiariaPadrao, PrecoKmPadrao, PlacasMaiusculas[c])

CpfDe(c) == <<"111", "222", "333">>[c]

ClientePadrao(c) == Cliente(STATUS_CLIENTE.ATIVO, MaxDia, CpfDe(c), "")

Ui(op, ok, id, km, data, acerto) ==
  [op |-> op, ok |-> ok, id |-> id, km |-> km, data |-> data, acerto |-> acerto]

NoUi == Ui("none", TRUE, 0, 0, 0, <<>>)

NoConsulta ==
  [feita |-> FALSE, data_inicio |-> 0, data_fim |-> 0, permitir |-> FALSE,
   resultado |-> {}]

Ociosa == [pc |-> "ociosa"]

Tables(ok, cs, rs) == [ok |-> ok, carros |-> cs, reservas |-> rs]

\* the rows of a vehicle query, by id, with the column the pages read
DataFrame(cs, ids) == [c \in ids |-> [diaria |-> cs[c].diaria]]

(* --------------------------- pricing ----------------------------------- *)
\* dias_periodo = max(1, (fim - inicio).days)
dias_periodo(inicio, fim) == Max(1, fim - inicio)

\* variant that bills every day in full
valor_diarias_sem_meia(diaria, dias, meia_diaria) ==
  2 * diaria * dias

\* diaria * (dias - 1) + diaria * 0.5 when meia_diaria is set, else
\* diaria * dias; the rate is in whole units, the result in half units
valor_diarias(diaria, dias, meia_diaria) ==
  IF meia_diaria /\ dias > 0
  THEN 2 * diaria * (dias - 1) + diaria
  ELSE 2 * diaria * dias

(* ------------- availability as a function of arbitrary tables ---------- *)
\* the money columns of a row at the DEFAULTs of the schema
FinZero == Fin(KmFranquiaPadrao, 0, 0, 0, 0, 0, 0, 0, FALSE, 0, 0, 0)

AvailRows ==
  {Reserva(c, 1, i, f, "Ativa", s, 0, NULL, FinZero, NULL) :
     c \in Carros, i \in Dias, f \in Dias, s \in StatusReservaValues}

AvailInit ==
  /\ \E st \in [Carros -> StatusCarroValues] :
       carros = [c \in Carros |->
                   Carro(st[c], 0, DiariaPadrao, PrecoKmPadrao, PlacasMaiusculas[c])]
  /\ clientes = [c \in Clientes |-> ClientePadrao(c)]
  /\ reservas \in [1..AvailReservas -> {r \in AvailRows : r.data_fim >= r.data_inicio}]
  /\ hoje = 0
  /\ ui = NoUi
  /\ consulta = NoConsulta
  /\ sess = [s \in Sessoes |-> Ociosa]
  /\ multas = <<>>
  /\ multas_carros_result = [s \in Sessoes |-> {}]

Consultar(ini, fim, permitir) ==
  /\ ini <= fim
  /\ ~consulta.feita
  /\ consulta' = [feita |-> TRUE, data_inicio |-> ini, data_fim |-> fim,
                  permitir |-> permitir,
                  resultado |-> get_available_vehicles(carros, reservas, ini, fim, permitir)]
  /\ UNCHANGED <<carros, clientes, reservas, hoje, ui, sess, multas, multas_carros_result>>

AvailNext == \E ini \in Dias, fim \in Dias, permitir \in BOOLEAN : Consultar(ini, fim, permitir)

SpecAvail == AvailInit /\ [][AvailNext]_vars

(* ===================== reservation lifecycle =========================== *)

(* ---- create: tab "Reservas Simplificadas" ----------------------------- *)
\* "Data de retirada" has min_value = today, "Data de devolucao" min_value =
\* the pickup date
create_datas_ok(hj, inicio, fim) ==
  /\ inicio >= hj
  /\ fim >= inicio

\* SELECT id, nome, cpf FROM clientes WHERE status = 'Ativo'
clientes_ativos(cls) ==
  {c \in DOMAIN cls : cls[c].status = STATUS_CLIENTE.ATIVO}

\* valor_total = total_diarias = max(0, valor_diarias - desconto), from the
\* rate in the row of carros_disponiveis
create_valor_total(diaria, inicio, fim, meia_diaria, desconto) ==
  Max(0, valor_diarias(diaria, dias_periodo(inicio, fim), meia_diaria) - desconto)

\* widget bounds of "Detalhes da locacao"
create_inputs_ok(diaria, inicio, fim, meia_diaria, desconto, km_franquia, adiantamento) ==
  /\ desconto >= 0
  /\ km_franquia >= 0
  /\ adiantamento >= 0
  /\ LET valor_total == create_valor_total(diaria, inicio, fim, meia_diaria, desconto)
     IN valor_total > 0 => adiantamento <= valor_total

\* the parameters of the INSERT; dados_carro has no km_atual column, so
\* km_saida_registrado is 0
insert_reserva(diaria, carro, cliente, inicio, fim, meia_diaria, desconto, km_franquia, adiantamento) ==
  LET total_diarias == create_valor_total(diaria, inicio, fim, meia_diaria, desconto)
      valor_total == total_diarias
      valor_restante == valor_total - adiantamento
  IN Reserva(carro, cliente, inicio, fim, "Ativa",
             STATUS_RESERVA.RESERVADA, 0, NULL,
             Fin(km_franquia, adiantamento, 0, 0, 0, 0, 0, desconto,
                 meia_diaria, total_diarias, valor_total, valor_restante),
             NULL)

\* run_query(INSERT ... RETURNING id): the generated id once the statement is
\* committed; when the statement raises, the transaction is rolled back and
\* the text of the error is returned as an ordinary value (modelled as 0)
run_query_insert(rs, row, db_ok) ==
  IF db_ok /\ row.data_fim >= row.data_inicio
  THEN [retorno |-> Len(rs) + 1, reservas |-> Append(rs, row)]
  ELSE [retorno |-> 0, reservas |-> rs]

\* "Salvar reserva": the value returned by run_query is not examined; the
\* success toast follows the call, and the except branch is taken only when
\* the call itself raises, which run_query never does
salvar_reserva(cs, rs, row, db_ok) ==
  LET q == run_query_insert(rs, row, db_ok)
  IN [ok |-> TRUE, nova_reserva_id |-> q.retorno, carros |-> cs, reservas |-> q.reservas]

(* ---- edit: tab "Gerenciar Reservas" ----------------------------------- *)
\* reservas_edicao_df: the reservations offered for editing
reservas_edicao_df(rs) ==
  {i \in DOMAIN rs : rs[i].status = "Ativa"}

\* carros_df: vehicles offered for the stored dates of the reservation, as
\* the run read them with SELECT * FROM reservas WHERE id
carros_df(cs, rs, reserva_id_edicao, data_inicio_reserva, data_fim_reserva) ==
  {c \in DOMAIN cs :
     /\ cs[c].status \notin {STATUS_CARRO.EXCLUIDO, STATUS_CARRO.INDISPONIVEL}
     /\ c \notin {rs[i].carro_id : i \in
           {j \in Ativas(rs) : /\ rs[j].data_inicio <= data_fim_reserva
                               /\ rs[j].data_fim >= data_inicio_reserva
                               /\ j # reserva_id_edicao}}}

\* "Data de retirada" has min_value = today and opens at the stored date;
\* "Data de devolucao" has min_value = the pickup date held by the page
edit_datas_ok(hj, dados_reserva, ini, fim) ==
  /\ (ini >= hj \/ ini = dados_reserva.data_inicio)
  /\ fim >= ini

datas_alteradas(dados_reserva, ini, fim) ==
  ini # dados_reserva.data_inicio \/ fim # dados_reserva.data_fim

\* pd.concat of the vehicles free in the new dates with the row of the
\* current vehicle out of carros_df, first row kept for a duplicated id
carros_disponiveis_edit(disponiveis, df, carro_atual_id, atual_livre) ==
  IF atual_livre /\ carro_atual_id \in DOMAIN df
                 /\ carro_atual_id \notin DOMAIN disponiveis
  THEN [c \in DOMAIN disponiveis \cup {carro_atual_id} |->
          IF c \in DOMAIN disponiveis THEN disponiveis[c] ELSE df[c]]
  ELSE disponiveis

\* recomputed only when dates, half-day flag or discount differ from the row
\* the run read; diaria_veiculo is the rate in the row of the selected
\* vehicle in carros_disponiveis_edit
total_diarias_calculado(dados_reserva, diaria_veiculo, ini, fim, form) ==
  LET meia_diaria_alterada == form.meia_diaria # dados_reserva.fin.meia_diaria
      desconto_alterado == form.desconto_cliente # dados_reserva.fin.desconto_cliente
  IN IF datas_alteradas(dados_reserva, ini, fim) \/ meia_diaria_alterada \/ desconto_alterado
     THEN valor_diarias(diaria_veiculo, dias_periodo(ini, fim), form.meia_diaria)
     ELSE dados_reserva.fin.total_diarias

\* form: the money inputs and the delivery time of the edit page, named as the
\* columns they update
edit_inputs_ok(dados_reserva, clientes_df, opcoes, ini, fim, cliente, carro, status, rstatus, kms, kmv, form) ==
  /\ cliente \in clientes_df
  /\ carro \in DOMAIN opcoes
  /\ status \in {"Ativa", "Inativa"}
  /\ rstatus \in StatusReservaValues
  /\ kms >= 0
  /\ kmv >= kms
  /\ form.km_franquia >= 0 /\ form.adiantamento >= 0
  /\ form.pagamento_parcial_entrega >= 0 /\ form.desconto_cliente >= 0
  /\ form.valor_multas >= 0 /\ form.valor_danos >= 0
  /\ form.valor_outros >= 0 /\ form.custo_lavagem >= 0
  \* the read-only "Valor restante" field has min_value 0: the page stops on
  \* a row whose stored balance is negative
  /\ dados_reserva.fin.valor_restante >= 0
  \* so has the read-only "Total de diarias" field, whose value is the total
  \* the page recomputed from the rate of the vehicle picked, or the stored one
  /\ total_diarias_calculado(dados_reserva, opcoes[carro].diaria, ini, fim, form) >= 0

status_carro_destino(rstatus) ==
  IF rstatus = STATUS_RESERVA.RESERVADA THEN STATUS_CARRO.RESERVADO
  ELSE IF rstatus = STATUS_RESERVA.LOCADA THEN STATUS_CARRO.LOCADO
  ELSE STATUS_CARRO.DISPONIVEL

\* the tests the button run makes before it opens its transaction
validar_alt(rs, rid, carro, ini, fim) ==
  /\ fim >= ini
  /\ check_vehicle_availability(rs, carro, ini, fim, rid)

\* the statement of the UPDATE transaction that raises: 0 none, 1 the UPDATE of
\* reservas (or the connection), 2 the UPDATE of the target vehicle, 3 the
\* UPDATE of the previous vehicle
FalhasEdit == 0..3

\* variant whose statements are committed one by one: what ran before the
\* statement that raised stays in the tables
salvar_alt_sem_rollback(cs, rs, rid, carro_atual, cliente, carro, ini, fim, status, rstatus, kms, kmv, form, total_diarias, falha) ==
  LET subtotal_calculado == total_diarias + form.valor_multas + form.valor_danos
                            + form.valor_outros + form.custo_lavagem
      valor_total_calculado == Max(0, subtotal_calculado - form.desconto_cliente)
      fin == Fin(form.km_franquia, form.adiantamento, form.pagamento_parcial_entrega,
                 form.custo_lavagem, form.valor_multas, form.valor_danos,
                 form.valor_outros, form.desconto_cliente, form.meia_diaria,
                 total_diarias, valor_total_calculado,
                 valor_total_calculado - form.adiantamento
                   - form.pagamento_parcial_entrega)
      reserva_achada == rid \in DOMAIN rs
      check_datas == fim >= ini
      passo1 == reserva_achada /\ check_datas /\ falha # 1
      passo2 == passo1 /\ falha # 2
      passo3 == passo2 /\ falha # 3 /\ carro # carro_atual
      rs1 == IF passo1
             THEN [rs EXCEPT ![rid] = Reserva(carro, cliente, ini, fim, status, rstatus,
                                               kms, kmv, fin, form.horario_entrega)]
             ELSE rs
      cs1 == IF passo2 /\ carro \in DOMAIN cs
             THEN [cs EXCEPT ![carro].status = status_carro_destino(rstatus)]
             ELSE cs
      cs2 == IF passo3 /\ carro_atual \in DOMAIN cs1
             THEN [cs1 EXCEPT ![carro_atual].status = STATUS_CARRO.DISPONIVEL]
             ELSE cs1
      levantou == \/ ~reserva_achada \/ ~check_datas
                  \/ falha \in {1, 2}
                  \/ (falha = 3 /\ carro # carro_atual)
  IN Tables(~levantou, cs2, rs1)

\* the UPDATE transaction of the button run; carro_atual and total_diarias
\* are values the run computed from the reads of the page.  A statement that
\* raises (no row updated, the CHECK on the dates, a storage error: falha)
\* takes the run to the except branch, which rolls the transaction back
salvar_alt(cs, rs, rid, carro_atual, cliente, carro, ini, fim, status, rstatus, kms, kmv, form, total_diarias, falha) ==
  LET subtotal_calculado == total_diarias + form.valor_multas + form.valor_danos
                            + form.valor_outros + form.custo_lavagem
      valor_total_calculado == Max(0, subtotal_calculado - form.desconto_cliente)
      fin == Fin(form.km_franquia, form.adiantamento, form.pagamento_parcial_entrega,
                 form.custo_lavagem, form.valor_multas, form.valor_danos,
                 form.valor_outros, form.desconto_cliente, form.meia_diaria,
                 total_diarias, valor_total_calculado,
                 valor_total_calculado - form.adiantamento
                   - form.pagamento_parcial_entrega)
      reserva_achada == rid \in DOMAIN rs
      rs1 == IF reserva_achada
             THEN [rs EXCEPT ![rid] = Reserva(carro, cliente, ini, fim, status, rstatus,
                                               kms, kmv, fin, form.horario_entrega)]
             ELSE rs
      check_datas == fim >= ini
      cs1 == IF carro \in DOMAIN cs
             THEN [cs EXCEPT ![carro].status = status_carro_destino(rstatus)]
             ELSE cs
      cs2 == IF carro # carro_atual /\ carro_atual \in DOMAIN cs1
             THEN [cs1 EXCEPT ![carro_atual].status = STATUS_CARRO.DISPONIVEL]
             ELSE cs1
      levantou == \/ ~reserva_achada \/ ~check_datas
                  \/ falha \in {1, 2}
                  \/ (falha = 3 /\ carro # carro_atual)
  IN IF levantou THEN Tables(FALSE, cs, rs) ELSE Tables(TRUE, cs2, rs1)

(* ---- deliver: "Entrega do veiculo" ------------------------------------ *)
get_reservas_entrega(cs, rs) ==
  {i \in DOMAIN rs :
     /\ rs[i].status = "Ativa"
     /\ rs[i].reserva_status = "Reservada"
     /\ cs[rs[i].carro_id].status # "Locado"}

\* one SELECT joining the reservation with its vehicle and its customer; it
\* lists r.* and then c.status, and the row is built as a dict, which keeps
\* the last of the two columns named status: the vehicle's
carregar_dados(cs, cls, rs, id_reserva_sel) ==
  [dados_carro |-> cs[rs[id_reserva_sel].carro_id],
   dados_cliente |-> cls[rs[id_reserva_sel].cliente_id],
   dados_reserva |-> [rs[id_reserva_sel] EXCEPT
                        !.status = cs[rs[id_reserva_sel].carro_id].status]]

\* km_saida = reserva.km_saida or carro.km_atual or 0
entrega_km_min(dados_carro, dados_reserva) ==
  IF dados_reserva.km_saida # 0 THEN dados_reserva.km_saida
  ELSE IF dados_carro.km_atual # 0 THEN dados_carro.km_atual
  ELSE 0

\* valor_previsto = total_diarias, or days (inclusive) times the rate when 0
valor_previsto(dados_carro, dados_reserva) ==
  IF dados_reserva.fin.total_diarias # 0 THEN dados_reserva.fin.total_diarias
  ELSE 2 * Max(1, dados_reserva.data_fim - dados_reserva.data_inicio + 1) * dados_carro.diaria

saldo(dados_carro, dados_reserva) ==
  Max(0, valor_previsto(dados_carro, dados_reserva) - dados_reserva.fin.adiantamento)

\* the form is built only for a customer whose licence has not expired
validar_cnh_simplificada(dados_cliente, hj) ==
  /\ dados_cliente.validade_cnh # NULL
  /\ dados_cliente.validade_cnh >= hj

entrega_inputs_ok(dados_carro, dados_cliente, dados_reserva, hj, km_confirma, data_saida, valor_pago_agora) ==
  /\ validar_cnh_simplificada(dados_cliente, hj)
  /\ km_confirma >= entrega_km_min(dados_carro, dados_reserva)
  /\ valor_pago_agora >= 0
  /\ valor_pago_agora <= Max(saldo(dados_carro, dados_reserva), 0)

\* variant without rollback: the vehicle update survives a later failure
finalizar_entrega_sem_rollback(cs, rs, carro_id, id_reserva_sel, km_confirma, data_saida, horario_entrega, dados_carro, dados_reserva, adiantamento, valor_restante, pdf_ok) ==
  LET cs1 == [cs EXCEPT ![carro_id].status = STATUS_CARRO.LOCADO,
                        ![carro_id].km_atual = km_confirma]
      rs1 == [rs EXCEPT ![id_reserva_sel].km_saida = km_confirma,
                        ![id_reserva_sel].data_inicio = data_saida,
                        ![id_reserva_sel].horario_entrega = horario_entrega,
                        ![id_reserva_sel].reserva_status = STATUS_RESERVA.LOCADA,
                        ![id_reserva_sel].fin.adiantamento = adiantamento,
                        ![id_reserva_sel].fin.valor_total =
                           2 * dados_carro.diaria * Max(1, dados_reserva.data_fim - data_saida),
                        ![id_reserva_sel].fin.valor_restante = valor_restante]
  IN IF rs1[id_reserva_sel].data_fim >= rs1[id_reserva_sel].data_inicio /\ pdf_ok
     THEN Tables(TRUE, cs1, rs1)
     ELSE Tables(FALSE, cs1, rs)

\* variant against a reservas table without CHECK (data_fim >= data_inicio)
finalizar_entrega_sem_check(cs, rs, carro_id, id_reserva_sel, km_confirma, data_saida, horario_entrega, dados_carro, dados_reserva, adiantamento, valor_restante, pdf_ok) ==
  LET cs1 == [cs EXCEPT ![carro_id].status = STATUS_CARRO.LOCADO,
                        ![carro_id].km_atual = km_confirma]
      rs1 == [rs EXCEPT ![id_reserva_sel].km_saida = km_confirma,
                        ![id_reserva_sel].data_inicio = data_saida,
                        ![id_reserva_sel].horario_entrega = horario_entrega,
                        ![id_reserva_sel].reserva_status = STATUS_RESERVA.LOCADA,
                        ![id_reserva_sel].fin.adiantamento = adiantamento,
                        ![id_reserva_sel].fin.valor_total =
                           2 * dados_carro.diaria * Max(1, dados_reserva.data_fim - data_saida),
                        ![id_reserva_sel].fin.valor_restante = valor_restante]
  IN IF pdf_ok THEN Tables(TRUE, cs1, rs1) ELSE Tables(FALSE, cs, rs)

\* carro_id comes from the row of get_reservas_entrega, dados_carro and
\* dados_reserva from carregar_dados
finalizar_entrega(cs, rs, carro_id, id_reserva_sel, km_confirma, data_saida, horario_entrega, dados_carro, dados_reserva, adiantamento, valor_restante, pdf_ok) ==
  LET carro_achado == carro_id \in DOMAIN cs
      cs1 == IF carro_achado
             THEN [cs EXCEPT ![carro_id].status = STATUS_CARRO.LOCADO,
                             ![carro_id].km_atual = km_confirma]
             ELSE cs
      dias_locacao == Max(1, dados_reserva.data_fim - data_saida)
      valor_total == 2 * dados_carro.diaria * dias_locacao
      reserva_achada == id_reserva_sel \in DOMAIN rs
      rs1 == IF reserva_achada
             THEN [rs EXCEPT ![id_reserva_sel].km_saida = km_confirma,
                             ![id_reserva_sel].data_inicio = data_saida,
                             ![id_reserva_sel].horario_entrega = horario_entrega,
                             ![id_reserva_sel].reserva_status = STATUS_RESERVA.LOCADA,
                             ![id_reserva_sel].fin.adiantamento = adiantamento,
                             ![id_reserva_sel].fin.valor_total = valor_total,
                             ![id_reserva_sel].fin.valor_restante = valor_restante]
             ELSE rs
      check_datas == reserva_achada =>
                       rs1[id_reserva_sel].data_fim >= rs1[id_reserva_sel].data_inicio
  IN IF carro_achado /\ reserva_achada /\ check_datas /\ pdf_ok
     THEN Tables(TRUE, cs1, rs1)
     ELSE Tables(FALSE, cs, rs)

(* ---- return: "Devolucao" ---------------------------------------------- *)
query_dev(rs) ==
  {i \in DOMAIN rs : rs[i].status = "Ativa" /\ rs[i].reserva_status = "Locada"}

\* extras: [custo_lavagem, valor_multas, valor_danos, valor_outros] typed in
custo_km(reserva, preco_km, km_volta) ==
  LET km_rodados_totais == km_volta - reserva.km_saida
      km_franquia_reserva == IF km_rodados_totais > reserva.fin.km_franquia
                             THEN 0 ELSE reserva.fin.km_franquia
      km_a_cobrar == Max(0, km_rodados_totais - km_franquia_reserva)
  IN 2 * km_a_cobrar * preco_km

subtotal_sem_adiantamento(reserva, preco_km, km_volta, extras) ==
  reserva.fin.total_diarias + custo_km(reserva, preco_km, km_volta)
  + extras.custo_lavagem + extras.valor_multas + extras.valor_danos + extras.valor_outros

total_final(reserva, preco_km, km_volta, extras) ==
  subtotal_sem_adiantamento(reserva, preco_km, km_volta, extras) - reserva.fin.adiantamento

devolucao_inputs_ok(cs, rs, rid, km_volta, extras, valor_pago) ==
  /\ rid \in query_dev(rs)
  /\ km_volta >= rs[rid].km_saida
  /\ extras.custo_lavagem >= 0 /\ extras.valor_multas >= 0
  /\ extras.valor_danos >= 0 /\ extras.valor_outros >= 0
  /\ LET tf == total_final(rs[rid], cs[rs[rid].carro_id].preco_km, km_volta, extras)
     IN IF tf > 0 THEN valor_pago >= 0 /\ valor_pago <= 2 * tf ELSE valor_pago = 0

\* date.today(), clamped to the registered pickup date
data_devolucao(hj, data_saida_real) ==
  IF hj < data_saida_real THEN data_saida_real ELSE hj

\* the columns of the breakdown the return page computed from its reads
acerto_devolucao(reserva, preco_km, km_volta, extras, valor_pago) ==
  LET tf == total_final(reserva, preco_km, km_volta, extras)
      valor_restante == IF tf > 0 THEN Max(0, tf - valor_pago) ELSE 0
  IN [custo_lavagem |-> extras.custo_lavagem,
      valor_total |-> subtotal_sem_adiantamento(reserva, preco_km, km_volta, extras),
      valor_multas |-> extras.valor_multas,
      valor_danos |-> extras.valor_danos,
      valor_outros |-> extras.valor_outros,
      total_diarias |-> reserva.fin.total_diarias,
      valor_restante |-> IF tf > 0 THEN Max(0, valor_restante) ELSE 0]

\* variant without rollback: the reservation update survives a receipt failure
finalizar_devolucao_sem_rollback(cs, rs, id_reserva_sel, reserva, km_volta, data_dev, acerto, recibo_ok) ==
  LET rs1 == [rs EXCEPT ![id_reserva_sel].status = "Finalizada",
                        ![id_reserva_sel].reserva_status = "Finalizada",
                        ![id_reserva_sel].km_volta = km_volta,
                        ![id_reserva_sel].fin.custo_lavagem = acerto.custo_lavagem,
                        ![id_reserva_sel].fin.valor_total = acerto.valor_total,
                        ![id_reserva_sel].fin.valor_multas = acerto.valor_multas,
                        ![id_reserva_sel].fin.valor_danos = acerto.valor_danos,
                        ![id_reserva_sel].fin.valor_outros = acerto.valor_outros,
                        ![id_reserva_sel].fin.total_diarias = acerto.total_diarias,
                        ![id_reserva_sel].fin.valor_restante = acerto.valor_restante,
                        ![id_reserva_sel].data_fim = data_dev]
      cs1 == [cs EXCEPT ![reserva.carro_id].status = STATUS_CARRO.DISPONIVEL,
                        ![reserva.carro_id].km_atual = km_volta]
  IN IF recibo_ok THEN Tables(TRUE, cs1, rs1) ELSE Tables(FALSE, cs, rs1)

\* reserva is the row of query_dev read by this script run
finalizar_devolucao(cs, rs, id_reserva_sel, reserva, km_volta, data_dev, acerto, recibo_ok) ==
  LET reserva_achada == id_reserva_sel \in DOMAIN rs
      rs1 == IF reserva_achada
             THEN [rs EXCEPT ![id_reserva_sel].status = "Finalizada",
                             ![id_reserva_sel].reserva_status = "Finalizada",
                             ![id_reserva_sel].km_volta = km_volta,
                             ![id_reserva_sel].fin.custo_lavagem = acerto.custo_lavagem,
                             ![id_reserva_sel].fin.valor_total = acerto.valor_total,
                             ![id_reserva_sel].fin.valor_multas = acerto.valor_multas,
                             ![id_reserva_sel].fin.valor_danos = acerto.valor_danos,
                             ![id_reserva_sel].fin.valor_outros = acerto.valor_outros,
                             ![id_reserva_sel].fin.total_diarias = acerto.total_diarias,
                             ![id_reserva_sel].fin.valor_restante = acerto.valor_restante,
                             ![id_reserva_sel].data_fim = data_dev]
             ELSE rs
      check_datas == reserva_achada =>
                       rs1[id_reserva_sel].data_fim >= rs1[id_reserva_sel].data_inicio
      carro_achado == reserva.carro_id \in DOMAIN cs
      cs1 == IF carro_achado
             THEN [cs EXCEPT ![reserva.carro_id].status = STATUS_CARRO.DISPONIVEL,
                             ![reserva.carro_id].km_atual = km_volta]
             ELSE cs
  IN IF reserva_achada /\ check_datas /\ carro_achado /\ recibo_ok
     THEN Tables(TRUE, cs1, rs1)
     ELSE Tables(FALSE, cs, rs)


(* ---- fleet: "Frota (Carros)" ------------------------------------------ *)
\* the fleet page lists every vehicle whose status is not Excluido
frota_df(cs) ==
  {c \in DOMAIN cs : cs[c].status # STATUS_CARRO.EXCLUIDO}

\* SELECT id FROM carros WHERE placa = ... AND id != ...; also the rows that
\* the UNIQUE constraint on placa holds against a write (id_edit = 0: insert)
placa_check(cs, up_placa, id_edit) ==
  {c \in DOMAIN cs : cs[c].placa = up_placa /\ c # id_edit}

\* widget bounds of "Cadastro de Novo Veiculo"
salvar_carro_inputs_ok(km, diaria, p_km, status_inicial) ==
  /\ km >= 0
  /\ diaria >= 0
  /\ p_km >= 0
  /\ status_inicial \in StatusCarroValues

\* "Salvar Carro": the required fields, then one INSERT whose result is
\* examined; ano_veiculo is at least 1900 and never empty
salvar_carro(cs, marca, modelo, placa, cor, km, diaria, p_km, status_inicial, numero_chassi, numero_renavam, db_ok) ==
  IF marca = "" \/ modelo = "" \/ placa = "" \/ cor = "" \/ diaria <= 0
     \/ numero_chassi = "" \/ numero_renavam = ""
  THEN [ok |-> FALSE, carros |-> cs]
  ELSE IF db_ok /\ placa_check(cs, placa, 0) = {}
  THEN [ok |-> TRUE,
        carros |-> [c \in DOMAIN cs \cup {Cardinality(DOMAIN cs) + 1} |->
                      IF c \in DOMAIN cs THEN cs[c]
                      ELSE Carro(status_inicial, km, diaria, p_km, placa)]]
  ELSE [ok |-> FALSE, carros |-> cs]

frota_inputs_ok(cs, id_edit, up_status) ==
  /\ id_edit \in frota_df(cs)
  /\ up_status \in StatusCarroValues

\* the tests of "Atualizar Dados e Status" against the row the page read
validar_carro(dados_atuais, up_km, up_marca, up_modelo, up_placa) ==
  /\ up_km >= dados_atuais.km_atual
  /\ up_marca # "" /\ up_modelo # "" /\ up_placa # ""

\* the UPDATE of "Atualizar Dados e Status"; the value returned by run_query
\* is not examined and the success message follows the call
atualizar_carro(cs, rs, id_edit, up_placa, up_diaria, up_p_km, up_km, up_status, db_ok) ==
  IF db_ok /\ id_edit \in DOMAIN cs /\ placa_check(cs, up_placa, id_edit) = {}
  THEN Tables(TRUE, [cs EXCEPT ![id_edit] = Carro(up_status, up_km, up_diaria, up_p_km,
                                                    up_placa)], rs)
  ELSE Tables(TRUE, cs, rs)

\* variant that writes the status without looking at the current one
marcar_excluido_sem_recusa(cs, rs, dados_atuais, id_edit) ==
  Tables(TRUE, [cs EXCEPT ![id_edit].status = STATUS_CARRO.EXCLUIDO], rs)

\* the button refuses a Locado or Reservado vehicle with st.error; in the other
\* branch the arguments of run_query are evaluated first and the lookup of
\* the status constant uses a key spelled with an accented I, which the dict
\* of pdfgenerator.py does not hold: KeyError, the UPDATE is never sent
marcar_excluido(cs, rs, dados_atuais, id_edit) ==
  IF dados_atuais.status \in {STATUS_CARRO.LOCADO, STATUS_CARRO.RESERVADO}
    THEN Tables(FALSE, cs, rs)
    ELSE Tables(FALSE, cs, rs)

(* ---- customers: "Clientes" -------------------------------------------- *)
\* the customer page lists every customer whose status is not Removido
df_clientes(cls) ==
  {c \in DOMAIN cls : cls[c].status # STATUS_CLIENTE.REMOVIDO}

\* SELECT 1 FROM clientes WHERE cpf = ... AND status != 'REMOVIDO'
cpf_existente(cls, cpf) ==
  {c \in DOMAIN cls : cls[c].cpf = cpf /\ cls[c].status # "REMOVIDO"}

\* SELECT 1 FROM clientes WHERE rg = ... AND status != 'REMOVIDO' AND rg IS
\* NOT NULL
rg_existente(cls, rg) ==
  {c \in DOMAIN cls : cls[c].rg = rg /\ cls[c].status # "REMOVIDO" /\ cls[c].rg # ""}

\* "Validade da CNH" has min_value = today
salvar_cliente_inputs_ok(hj, validade_cnh) ==
  validade_cnh >= hj

\* the INSERT of "Salvar Cliente", whose result is examined; cpf is UNIQUE,
\* an empty rg is stored as NULL, status takes its default
salvar_cliente(cls, cpf, rg, validade_cnh, db_ok) ==
  IF db_ok /\ {c \in DOMAIN cls : cls[c].cpf = cpf} = {}
  THEN [ok |-> TRUE,
        clientes |-> [c \in DOMAIN cls \cup {Cardinality(DOMAIN cls) + 1} |->
                        IF c \in DOMAIN cls THEN cls[c]
                        ELSE Cliente(STATUS_CLIENTE.ATIVO, validade_cnh, cpf, rg)]]
  ELSE [ok |-> FALSE, clientes |-> cls]

\* the UPDATE of "Atualizar Dados do Cliente"; its result is not examined
atualizar_cliente(cls, id_cliente_sel, up_rg, up_validade_cnh, db_ok) ==
  IF db_ok /\ id_cliente_sel \in DOMAIN cls
  THEN [ok |-> TRUE,
        clientes |-> [cls EXCEPT ![id_cliente_sel].rg = up_rg,
                                 ![id_cliente_sel].validade_cnh = up_validade_cnh]]
  ELSE [ok |-> TRUE, clientes |-> cls]

\* SELECT COUNT(*) FROM reservas WHERE cliente_id = ... AND reserva_status IN
\* ('Reservada', 'Locada')
reservas_ativas_check(rs, id_cliente_sel) ==
  Cardinality({i \in DOMAIN rs :
                 /\ rs[i].cliente_id = id_cliente_sel
                 /\ rs[i].reserva_status \in {"Reservada", "Locada"}})

\* the UPDATE of "Marcar como REMOVIDO"; its result is not examined
remover_cliente(cls, id_cliente_sel, db_ok) ==
  IF db_ok /\ id_cliente_sel \in DOMAIN cls
  THEN [ok |-> TRUE,
        clientes |-> [cls EXCEPT ![id_cliente_sel].status = STATUS_CLIENTE.REMOVIDO]]
  ELSE [ok |-> TRUE, clientes |-> cls]

(* ---- fines: "Gerenciar Multas" ---------------------------------------- *)
StatusMultaValues == {"Pendente", "Paga", "Isentada"}

Multa(reserva_id, status) == [reserva_id |-> reserva_id, status |-> status]

\* reservations listed for the date of the infraction
reservas_na_data(rs, data_multa) ==
  {i \in DOMAIN rs :
     /\ rs[i].data_inicio <= data_multa
     /\ data_multa <= rs[i].data_fim
     /\ rs[i].reserva_status \in {"Locada", "Reservada", "Finalizada"}}

\* run_query(INSERT INTO multas ... 'Pendente'), a transaction of its own
insert_multa(ms, reserva_id, db_ok) ==
  IF db_ok THEN Append(ms, Multa(reserva_id, "Pendente")) ELSE ms

\* run_query(UPDATE reservas SET status = ... WHERE id), a transaction of its
\* own
update_reserva_status(rs, reserva_id, status, db_ok) ==
  IF db_ok /\ reserva_id \in DOMAIN rs
  THEN [rs EXCEPT ![reserva_id].status = status]
  ELSE rs

\* run_query(UPDATE multas SET status WHERE id), a transaction of its own
update_multa_status(ms, multa_id, novo_status, db_ok) ==
  IF db_ok /\ multa_id \in DOMAIN ms /\ novo_status \in StatusMultaValues
  THEN [ms EXCEPT ![multa_id].status = novo_status]
  ELSE ms

\* the status the second statement of "Atualizar status" writes
status_reserva_da_multa(novo_status) ==
  IF novo_status = "Paga" THEN "Finalizada" ELSE "Com Multa Pendente"

(* ====================== script runs as actions ========================= *)
\* the clock: date.today() advances between script runs
Tick ==
  /\ hoje < MaxDia
  /\ hoje' = hoje + 1
  /\ UNCHANGED <<carros, clientes, reservas, ui, consulta, sess, multas, multas_carros_result>>

\* positions of a run that is still rebuilding its page
PcsDeLeitura ==
  {"create_disp", "edit_lista", "edit_reserva", "edit_clientes", "edit_datas",
   "edit_disp", "edit_veiculos", "entrega_lista"}

\* a run that has not reached the handler of its button ends without a
\* write: st.stop(), an empty list, a widget that no longer accepts the value
\* it holds, or the next interaction of the operator, which starts a new run
Parar(s) ==
  /\ sess[s].pc \in PcsDeLeitura
  /\ sess' = [sess EXCEPT ![s] = Ociosa]
  /\ UNCHANGED <<carros, clientes, reservas, hoje, ui, consulta, multas, multas_carros_result>>

(* ---- "Salvar reserva" ------------------------------------------------- *)
SessaoCreateDisp(inicio, fim, carros_disponiveis) ==
  [pc |-> "create_disp", inicio |-> inicio, fim |-> fim,
   carros_disponiveis |-> carros_disponiveis]

SessaoCreate(row) == [pc |-> "create", row |-> row]

EmCreate == {s \in Sessoes : sess[s].pc \in {"create_disp", "create"}}

\* the run reads get_available_vehicles for the dates of the page ...
CreateDisponiveis(s, inicio, fim, permitir) ==
  /\ sess[s] = Ociosa
  /\ Len(reservas) + Cardinality(EmCreate) < MaxReservas
  /\ create_datas_ok(hoje, inicio, fim)
  /\ LET ids == get_available_vehicles(carros, reservas, inicio, fim, permitir)
     IN /\ ids # {}
        /\ sess' = [sess EXCEPT ![s] = SessaoCreateDisp(inicio, fim, DataFrame(carros, ids))]
  /\ UNCHANGED <<carros, clientes, reservas, hoje, ui, consulta, multas, multas_carros_result>>

\* ... then the active customers; the vehicle is one of the rows read before,
\* and the amounts come from the rate in that row ...
CreateClientes(s, cliente, carro, meia_diaria, desconto, km_franquia, adiantamento) ==
  /\ sess[s].pc = "create_disp"
  /\ cliente \in clientes_ativos(clientes)
  /\ carro \in DOMAIN sess[s].carros_disponiveis
  /\ LET diaria == sess[s].carros_disponiveis[carro].diaria
     IN /\ create_inputs_ok(diaria, sess[s].inicio, sess[s].fim, meia_diaria, desconto,
                            km_franquia, adiantamento)
        /\ sess' = [sess EXCEPT ![s] =
             SessaoCreate(insert_reserva(diaria, carro, cliente, sess[s].inicio,
                                         sess[s].fim, meia_diaria, desconto, km_franquia,
                                         adiantamento))]
  /\ UNCHANGED <<carros, clientes, reservas, hoje, ui, consulta, multas, multas_carros_result>>

\* ... and then sends its INSERT
CreateGravar(s, db_ok) ==
  /\ sess[s].pc = "create"
  /\ LET t == salvar_reserva(carros, reservas, sess[s].row, db_ok)
     IN /\ carros' = t.carros
        /\ reservas' = t.reservas
        /\ ui' = Ui("create", t.ok, t.nova_reserva_id, 0, 0, <<>>)
  /\ sess' = [sess EXCEPT ![s] = Ociosa]
  /\ UNCHANGED <<clientes, hoje, consulta, multas, multas_carros_result>>

(* ---- "Salvar alteracoes" ---------------------------------------------- *)
\* what the run of "Salvar alteracoes" was asked to store
PedidoEdit(carro_atual, carro, ini, fim, rstatus) ==
  [carro_atual |-> carro_atual, carro |-> carro, data_inicio |-> ini,
   data_fim |-> fim, reserva_status |-> rstatus]

SessaoEdit(pc, rid, carro_atual, pedido, total_diarias) ==
  [pc |-> pc, rid |-> rid, carro_atual |-> carro_atual, pedido |-> pedido,
   total_diarias |-> total_diarias]

\* the values of the widgets of the edit form
CamposEdit(cliente, carro, ini, fim, status, rstatus, kms, kmv, form) ==
  [cliente |-> cliente, carro |-> carro, ini |-> ini, fim |-> fim, status |-> status,
   rstatus |-> rstatus, kms |-> kms, kmv |-> kmv, form |-> form]

\* the run reads the list of active reservations ...
EditListar(s, rid) ==
  /\ sess[s] = Ociosa
  /\ rid \in reservas_edicao_df(reservas)
  /\ sess' = [sess EXCEPT ![s] = [pc |-> "edit_lista", rid |-> rid]]
  /\ UNCHANGED <<carros, clientes, reservas, hoje, ui, consulta, multas, multas_carros_result>>

\* ... SELECT * FROM reservas WHERE id: the current vehicle, the stored dates
\* and the values the widgets open with ...
EditCarregar(s) ==
  /\ sess[s].pc = "edit_lista"
  /\ sess[s].rid \in DOMAIN reservas
  /\ sess' = [sess EXCEPT ![s] =
       [pc |-> "edit_reserva", rid |-> sess[s].rid,
        dados_reserva |-> reservas[sess[s].rid]]]
  /\ UNCHANGED <<carros, clientes, reservas, hoje, ui, consulta, multas, multas_carros_result>>

\* ... SELECT id, nome FROM clientes ...
EditClientes(s) ==
  /\ sess[s].pc = "edit_reserva"
  /\ DOMAIN clientes # {}
  /\ sess' = [sess EXCEPT ![s] =
       [pc |-> "edit_clientes", rid |-> sess[s].rid,
        dados_reserva |-> sess[s].dados_reserva, clientes_df |-> DOMAIN clientes]]
  /\ UNCHANGED <<carros, clientes, reservas, hoje, ui, consulta, multas, multas_carros_result>>

\* ... carros_df for the stored dates; the date widgets follow; with the
\* stored dates kept, carros_df is the list of vehicles on offer ...
EditCarrosDf(s, ini, fim) ==
  /\ sess[s].pc = "edit_clientes"
  /\ LET dr == sess[s].dados_reserva
         ids == carros_df(carros, reservas, sess[s].rid, dr.data_inicio, dr.data_fim)
     IN /\ ids # {}
        /\ edit_datas_ok(hoje, dr, ini, fim)
        /\ sess' = [sess EXCEPT ![s] =
             IF datas_alteradas(dr, ini, fim)
             THEN [pc |-> "edit_datas", rid |-> sess[s].rid, dados_reserva |-> dr,
                   clientes_df |-> sess[s].clientes_df, ini |-> ini, fim |-> fim,
                   carros_df |-> DataFrame(carros, ids)]
             ELSE [pc |-> "edit_veiculos", rid |-> sess[s].rid, dados_reserva |-> dr,
                   clientes_df |-> sess[s].clientes_df, ini |-> ini, fim |-> fim,
                   opcoes |-> DataFrame(carros, ids)]]
  /\ UNCHANGED <<carros, clientes, reservas, hoje, ui, consulta, multas, multas_carros_result>>

\* ... with other dates, get_available_vehicles for them ...
EditDisponiveis(s) ==
  /\ sess[s].pc = "edit_datas"
  /\ sess' = [sess EXCEPT ![s] =
       [pc |-> "edit_disp", rid |-> sess[s].rid, dados_reserva |-> sess[s].dados_reserva,
        clientes_df |-> sess[s].clientes_df, ini |-> sess[s].ini, fim |-> sess[s].fim,
        carros_df |-> sess[s].carros_df,
        disponiveis |-> DataFrame(carros,
                          get_available_vehicles(carros, reservas, sess[s].ini,
                                                 sess[s].fim, FALSE))]]
  /\ UNCHANGED <<carros, clientes, reservas, hoje, ui, consulta, multas, multas_carros_result>>

\* ... and check_vehicle_availability for the current vehicle, whose row of
\* carros_df joins the list when it is free ...
EditChecarAtual(s) ==
  /\ sess[s].pc = "edit_disp"
  /\ LET dr == sess[s].dados_reserva
         atual_livre == check_vehicle_availability(reservas, dr.carro_id, sess[s].ini,
                                                   sess[s].fim, sess[s].rid)
     IN sess' = [sess EXCEPT ![s] =
          [pc |-> "edit_veiculos", rid |-> sess[s].rid, dados_reserva |-> dr,
           clientes_df |-> sess[s].clientes_df, ini |-> sess[s].ini, fim |-> sess[s].fim,
           opcoes |-> carros_disponiveis_edit(sess[s].disponiveis, sess[s].carros_df,
                                              dr.carro_id, atual_livre)]]
  /\ UNCHANGED <<carros, clientes, reservas, hoje, ui, consulta, multas, multas_carros_result>>

\* ... the vehicle is picked from that list (check_vehicle_availability for
\* it only chooses the message under the select box), the other widgets
\* follow and total_diarias_calculado is taken from the rows read so far ...
EditCampos(s, cliente, carro, status, rstatus, kms, kmv, form) ==
  /\ sess[s].pc = "edit_veiculos"
  /\ LET dr == sess[s].dados_reserva
     IN /\ edit_inputs_ok(dr, sess[s].clientes_df, sess[s].opcoes, sess[s].ini, sess[s].fim,
                          cliente, carro, status, rstatus, kms, kmv, form)
        /\ sess' = [sess EXCEPT ![s] =
             SessaoEdit("edit", sess[s].rid, dr.carro_id,
                        CamposEdit(cliente, carro, sess[s].ini, sess[s].fim, status,
                                   rstatus, kms, kmv, form),
                        total_diarias_calculado(dr, sess[s].opcoes[carro].diaria,
                                                sess[s].ini, sess[s].fim, form))]
  /\ UNCHANGED <<carros, clientes, reservas, hoje, ui, consulta, multas, multas_carros_result>>

\* ... then the handler tests the dates and asks check_vehicle_availability
\* for the vehicle picked (SELECT diaria FROM carros follows: its row is never
\* missing and its value is not used), and reports a refusal with st.error ...
EditChecar(s) ==
  /\ sess[s].pc = "edit"
  /\ LET p == sess[s].pedido
     IN IF validar_alt(reservas, sess[s].rid, p.carro, p.ini, p.fim)
        THEN /\ sess' = [sess EXCEPT ![s].pc = "edit_gravar"]
             /\ ui' = ui
        ELSE /\ sess' = [sess EXCEPT ![s] = Ociosa]
             /\ ui' = Ui("edit", FALSE, sess[s].rid, 0, 0,
                         PedidoEdit(sess[s].carro_atual, p.carro, p.ini, p.fim, p.rstatus))
  /\ UNCHANGED <<carros, clientes, reservas, hoje, consulta, multas, multas_carros_result>>

\* ... and then runs its UPDATEs as one transaction; falha is the statement
\* that raises, if any, and the except branch shows "Erro ao salvar alteracoes"
EditGravar(s, falha) ==
  /\ sess[s].pc = "edit_gravar"
  /\ LET p == sess[s].pedido
         t == salvar_alt(carros, reservas, sess[s].rid, sess[s].carro_atual, p.cliente,
                         p.carro, p.ini, p.fim, p.status, p.rstatus, p.kms, p.kmv,
                         p.form, sess[s].total_diarias, falha)
     IN /\ carros' = t.carros
        /\ reservas' = t.reservas
        /\ ui' = IF t.ok
                 THEN Ui("edit", TRUE, sess[s].rid, 0, 0,
                         PedidoEdit(sess[s].carro_atual, p.carro, p.ini, p.fim, p.rstatus))
                 ELSE Ui("edit_erro", FALSE, sess[s].rid, 0, 0, <<>>)
  /\ sess' = [sess EXCEPT ![s] = Ociosa]
  /\ UNCHANGED <<clientes, hoje, consulta, multas, multas_carros_result>>

(* ---- "Confirmar entrega" ---------------------------------------------- *)
SessaoEntrega(rid, carro_id, km_confirma, data_saida, horario_entrega, dados_carro, dados_reserva, total_pago, valor_restante) ==
  [pc |-> "entrega", rid |-> rid, carro_id |-> carro_id, km_confirma |-> km_confirma,
   data_saida |-> data_saida, horario_entrega |-> horario_entrega,
   dados_carro |-> dados_carro, dados_reserva |-> dados_reserva,
   total_pago |-> total_pago, valor_restante |-> valor_restante]

\* the run reads get_reservas_entrega: reserva_row gives the id of the
\* vehicle ...
EntregaListar(s, rid) ==
  /\ sess[s] = Ociosa
  /\ rid \in get_reservas_entrega(carros, reservas)
  /\ sess' = [sess EXCEPT ![s] =
       [pc |-> "entrega_lista", rid |-> rid, carro_id |-> reservas[rid].carro_id]]
  /\ UNCHANGED <<carros, clientes, reservas, hoje, ui, consulta, multas, multas_carros_result>>

\* ... then carregar_dados: the rows of the vehicle, the customer and the
\* reservation that bound the form; "Horario da entrega" is left at the value
\* the widget opens with ...
EntregaCarregar(s, km_confirma, data_saida, valor_pago_agora) ==
  /\ sess[s].pc = "entrega_lista"
  /\ LET d == carregar_dados(carros, clientes, reservas, sess[s].rid)
         total_pago == d.dados_reserva.fin.adiantamento + valor_pago_agora
         valor_restante == Max(0, valor_previsto(d.dados_carro, d.dados_reserva) - total_pago)
     IN /\ entrega_inputs_ok(d.dados_carro, d.dados_cliente, d.dados_reserva, hoje,
                             km_confirma, data_saida, valor_pago_agora)
        /\ sess' = [sess EXCEPT ![s] =
             SessaoEntrega(sess[s].rid, sess[s].carro_id, km_confirma, data_saida,
                           HorarioPadrao, d.dados_carro, d.dados_reserva, total_pago,
                           valor_restante)]
  /\ UNCHANGED <<carros, clientes, reservas, hoje, ui, consulta, multas, multas_carros_result>>

\* ... and then calls finalizar_entrega, whose UPDATEs select by id only
EntregaGravar(s, pdf_ok) ==
  /\ sess[s].pc = "entrega"
  /\ LET t == finalizar_entrega(carros, reservas, sess[s].carro_id,
                                sess[s].rid, sess[s].km_confirma, sess[s].data_saida,
                                sess[s].horario_entrega, sess[s].dados_carro, sess[s].dados_reserva,
                                sess[s].total_pago, sess[s].valor_restante, pdf_ok)
     IN /\ carros' = t.carros
        /\ reservas' = t.reservas
        /\ ui' = IF t.ok
                 THEN Ui("entrega", TRUE, sess[s].rid, sess[s].km_confirma,
                         sess[s].data_saida, <<>>)
                 ELSE Ui("entrega", FALSE, sess[s].rid, 0, 0, <<>>)
  /\ sess' = [sess EXCEPT ![s] = Ociosa]
  /\ UNCHANGED <<clientes, hoje, consulta, multas, multas_carros_result>>

(* ---- "Finalizar Devolucao" -------------------------------------------- *)
SessaoDevolucao(rid, reserva, km_volta, data_dev, acerto) ==
  [pc |-> "devolucao", rid |-> rid, reserva |-> reserva, km_volta |-> km_volta,
   data_dev |-> data_dev, acerto |-> acerto]

\* the run reads query_dev, the one query of the page ...
DevolucaoLer(s, rid, km_volta, extras, valor_pago) ==
  /\ sess[s] = Ociosa
  /\ devolucao_inputs_ok(carros, reservas, rid, km_volta, extras, valor_pago)
  /\ sess' = [sess EXCEPT ![s] =
       SessaoDevolucao(rid, reservas[rid], km_volta,
                       data_devolucao(hoje, reservas[rid].data_inicio),
                       acerto_devolucao(reservas[rid],
                                        carros[reservas[rid].carro_id].preco_km,
                                        km_volta, extras, valor_pago))]
  /\ UNCHANGED <<carros, clientes, reservas, hoje, ui, consulta, multas, multas_carros_result>>

\* ... and then runs SELECT ... FOR UPDATE and both UPDATEs as one transaction
DevolucaoGravar(s, recibo_ok) ==
  /\ sess[s].pc = "devolucao"
  /\ LET t == finalizar_devolucao(carros, reservas, sess[s].rid, sess[s].reserva,
                                  sess[s].km_volta, sess[s].data_dev, sess[s].acerto,
                                  recibo_ok)
     IN /\ carros' = t.carros
        /\ reservas' = t.reservas
        /\ ui' = IF t.ok
                 THEN Ui("devolucao", TRUE, sess[s].rid, sess[s].km_volta,
                         sess[s].data_dev, sess[s].acerto)
                 ELSE Ui("devolucao", FALSE, sess[s].rid, 0, 0, <<>>)
  /\ sess' = [sess EXCEPT ![s] = Ociosa]
  /\ UNCHANGED <<clientes, hoje, consulta, multas, multas_carros_result>>

(* ---- "Salvar Carro", "Atualizar Dados e Status", "Marcar como EXCLUIDO" *)
\* the first statement of the run of "Salvar Carro" is its INSERT; the plate
\* is stored in capitals
SalvarCarro(marca, modelo, placa, cor, km, diaria, p_km, status_inicial, numero_chassi, numero_renavam, db_ok) ==
  /\ Cardinality(DOMAIN carros) < MaxCarros
  /\ salvar_carro_inputs_ok(km, diaria, p_km, status_inicial)
  /\ LET t == salvar_carro(carros, marca, modelo, upper(placa), cor, km, diaria, p_km,
                           status_inicial, numero_chassi, numero_renavam, db_ok)
     IN /\ carros' = t.carros
        /\ ui' = Ui("salvar_carro", t.ok,
                    IF t.ok THEN Cardinality(DOMAIN carros) + 1 ELSE 0, 0, 0, <<>>)
  /\ UNCHANGED <<clientes, reservas, hoje, consulta, sess, multas, multas_carros_result>>

\* the values of the widgets of the fleet form
CamposCarro(up_marca, up_modelo, up_placa, up_diaria, up_p_km, up_km, up_status) ==
  [up_marca |-> up_marca, up_modelo |-> up_modelo, up_placa |-> up_placa,
   up_diaria |-> up_diaria, up_p_km |-> up_p_km, up_km |-> up_km,
   up_status |-> up_status]

SessaoFrota(pc, id_edit, up) == [pc |-> pc, id_edit |-> id_edit, up |-> up]

\* the run of "Atualizar Dados e Status" reads the fleet and tests the form
\* against the row it read ...
FrotaLer(s, id_edit, up_marca, up_modelo, up_placa, up_diaria, up_p_km, up_km, up_status) ==
  /\ sess[s] = Ociosa
  /\ frota_inputs_ok(carros, id_edit, up_status)
  /\ LET dados_atuais == carros[id_edit]
     IN IF ~validar_carro(dados_atuais, up_km, up_marca, up_modelo, up_placa)
        THEN /\ ui' = Ui("frota", FALSE, id_edit, 0, 0, <<>>)
             /\ sess' = sess
        ELSE /\ ui' = ui
             /\ sess' = [sess EXCEPT ![s] =
                  SessaoFrota(IF up_placa # dados_atuais.placa THEN "frota_placa"
                                                               ELSE "frota_gravar",
                              id_edit,
                              CamposCarro(up_marca, up_modelo, up_placa, up_diaria,
                                          up_p_km, up_km, up_status))]
  /\ UNCHANGED <<carros, clientes, reservas, hoje, consulta, multas, multas_carros_result>>

\* ... with another plate typed, asks whether another vehicle holds it ...
FrotaPlaca(s) ==
  /\ sess[s].pc = "frota_placa"
  /\ IF placa_check(carros, sess[s].up.up_placa, sess[s].id_edit) # {}
     THEN /\ ui' = Ui("frota", FALSE, sess[s].id_edit, 0, 0, <<>>)
          /\ sess' = [sess EXCEPT ![s] = Ociosa]
     ELSE /\ ui' = ui
          /\ sess' = [sess EXCEPT ![s].pc = "frota_gravar"]
  /\ UNCHANGED <<carros, clientes, reservas, hoje, consulta, multas, multas_carros_result>>

\* ... and then sends its UPDATE and shows the success message
FrotaGravar(s, db_ok) ==
  /\ sess[s].pc = "frota_gravar"
  /\ LET up == sess[s].up
         t == atualizar_carro(carros, reservas, sess[s].id_edit, up.up_placa,
                              up.up_diaria, up.up_p_km, up.up_km, up.up_status, db_ok)
     IN /\ carros' = t.carros
        /\ reservas' = t.reservas
        /\ ui' = Ui("frota", t.ok, sess[s].id_edit, up.up_km, 0, <<>>)
  /\ sess' = [sess EXCEPT ![s] = Ociosa]
  /\ UNCHANGED <<clientes, hoje, consulta, multas, multas_carros_result>>

\* the run of "Marcar como EXCLUIDO" reads the fleet and never gets to send a
\* statement
Excluir(id_edit) ==
  /\ id_edit \in frota_df(carros)
  /\ LET t == marcar_excluido(carros, reservas, carros[id_edit], id_edit)
     IN /\ carros' = t.carros
        /\ reservas' = t.reservas
        /\ ui' = Ui("excluir", t.ok, id_edit, 0, 0, <<>>)
  /\ UNCHANGED <<clientes, hoje, consulta, sess, multas, multas_carros_result>>

(* ---- "Salvar Cliente", "Atualizar Dados do Cliente", "Marcar como
   REMOVIDO" ------------------------------------------------------------- *)
SessaoCliente(pc, cpf, rg, validade_cnh, uf_cnh, cpf_existe) ==
  [pc |-> pc, cpf |-> cpf, rg |-> rg, validade_cnh |-> validade_cnh,
   uf_cnh |-> uf_cnh, cpf_existe |-> cpf_existe]

EmSalvarCliente == {s \in Sessoes : sess[s].pc \in {"cliente_rg", "cliente_inserir"}}

\* what "Salvar Cliente" does once its reads are in: a known CPF and a missing
\* UF are refused
salvar_cliente_validar(cpf_existe, uf_cnh) ==
  ~cpf_existe /\ uf_cnh # ""

\* the run of "Salvar Cliente" tests the required fields and asks for the
\* CPF ...
SalvarClienteCpf(s, nome, cpf, cnh, telefone, rg, uf_cnh, validade_cnh) ==
  /\ sess[s] = Ociosa
  /\ Cardinality(DOMAIN clientes) + Cardinality(EmSalvarCliente) < MaxClientes
  /\ salvar_cliente_inputs_ok(hoje, validade_cnh)
  /\ IF nome = "" \/ cpf = "" \/ cnh = "" \/ telefone = ""
     THEN /\ ui' = Ui("salvar_cliente", FALSE, 0, 0, 0, <<>>)
          /\ sess' = sess
     ELSE LET cpf_existe == cpf_existente(clientes, cpf) # {}
          IN IF rg # ""
             THEN /\ ui' = ui
                  /\ sess' = [sess EXCEPT ![s] =
                       SessaoCliente("cliente_rg", cpf, rg, validade_cnh, uf_cnh, cpf_existe)]
             ELSE IF salvar_cliente_validar(cpf_existe, uf_cnh)
             THEN /\ ui' = ui
                  /\ sess' = [sess EXCEPT ![s] =
                       SessaoCliente("cliente_inserir", cpf, rg, validade_cnh, uf_cnh,
                                     cpf_existe)]
             ELSE /\ ui' = Ui("salvar_cliente", FALSE, 0, 0, 0, <<>>)
                  /\ sess' = sess
  /\ UNCHANGED <<carros, clientes, reservas, hoje, consulta, multas, multas_carros_result>>

\* ... with an RG typed, asks for the RG ...
SalvarClienteRg(s) ==
  /\ sess[s].pc = "cliente_rg"
  /\ IF rg_existente(clientes, sess[s].rg) = {}
        /\ salvar_cliente_validar(sess[s].cpf_existe, sess[s].uf_cnh)
     THEN /\ ui' = ui
          /\ sess' = [sess EXCEPT ![s].pc = "cliente_inserir"]
     ELSE /\ ui' = Ui("salvar_cliente", FALSE, 0, 0, 0, <<>>)
          /\ sess' = [sess EXCEPT ![s] = Ociosa]
  /\ UNCHANGED <<carros, clientes, reservas, hoje, consulta, multas, multas_carros_result>>

\* ... and then sends its INSERT
SalvarClienteGravar(s, db_ok) ==
  /\ sess[s].pc = "cliente_inserir"
  /\ LET t == salvar_cliente(clientes, sess[s].cpf, sess[s].rg, sess[s].validade_cnh,
                             db_ok)
     IN /\ clientes' = t.clientes
        /\ ui' = Ui("salvar_cliente", t.ok,
                    IF t.ok THEN Cardinality(DOMAIN clientes) + 1 ELSE 0, 0, 0, <<>>)
  /\ sess' = [sess EXCEPT ![s] = Ociosa]
  /\ UNCHANGED <<carros, reservas, hoje, consulta, multas, multas_carros_result>>

\* the run of "Atualizar Dados do Cliente" reads the customers and tests the
\* form; with the UF missing it shows an error and, after it, the success
\* message ...
AtualizarClienteLer(s, id_cliente_sel, up_nome, up_cnh, up_telefone, up_uf_cnh, up_rg, up_validade_cnh) ==
  /\ sess[s] = Ociosa
  /\ id_cliente_sel \in df_clientes(clientes)
  /\ up_validade_cnh \in Dias
  /\ IF up_nome = "" \/ up_cnh = "" \/ up_telefone = ""
     THEN /\ ui' = Ui("cliente", FALSE, id_cliente_sel, 0, 0, <<>>)
          /\ sess' = sess
     ELSE IF up_uf_cnh = ""
     THEN /\ ui' = Ui("cliente", TRUE, id_cliente_sel, 0, 0, <<>>)
          /\ sess' = sess
     ELSE /\ ui' = ui
          /\ sess' = [sess EXCEPT ![s] =
               [pc |-> "cliente_gravar", id_cliente_sel |-> id_cliente_sel,
                up_rg |-> up_rg, up_validade_cnh |-> up_validade_cnh]]
  /\ UNCHANGED <<carros, clientes, reservas, hoje, consulta, multas, multas_carros_result>>

\* ... and then sends its UPDATE and shows the success message
AtualizarClienteGravar(s, db_ok) ==
  /\ sess[s].pc = "cliente_gravar"
  /\ LET t == atualizar_cliente(clientes, sess[s].id_cliente_sel, sess[s].up_rg,
                                sess[s].up_validade_cnh, db_ok)
     IN /\ clientes' = t.clientes
        /\ ui' = Ui("cliente", t.ok, sess[s].id_cliente_sel, 0, 0, <<>>)
  /\ sess' = [sess EXCEPT ![s] = Ociosa]
  /\ UNCHANGED <<carros, reservas, hoje, consulta, multas, multas_carros_result>>

\* the run of "Marcar como REMOVIDO" reads the customers ...
RemoverLer(s, id_cliente_sel) ==
  /\ sess[s] = Ociosa
  /\ id_cliente_sel \in df_clientes(clientes)
  /\ sess' = [sess EXCEPT ![s] = [pc |-> "remover", id_cliente_sel |-> id_cliente_sel]]
  /\ UNCHANGED <<carros, clientes, reservas, hoje, ui, consulta, multas, multas_carros_result>>

\* ... counts the customer's Reservada and Locada reservations ...
RemoverContar(s) ==
  /\ sess[s].pc = "remover"
  /\ IF reservas_ativas_check(reservas, sess[s].id_cliente_sel) > 0
     THEN /\ ui' = Ui("remover", FALSE, sess[s].id_cliente_sel, 0, 0, <<>>)
          /\ sess' = [sess EXCEPT ![s] = Ociosa]
     ELSE /\ ui' = ui
          /\ sess' = [sess EXCEPT ![s].pc = "remover_gravar"]
  /\ UNCHANGED <<carros, clientes, reservas, hoje, consulta, multas, multas_carros_result>>

\* ... and then sends its UPDATE and shows the success message
RemoverGravar(s, db_ok) ==
  /\ sess[s].pc = "remover_gravar"
  /\ LET t == remover_cliente(clientes, sess[s].id_cliente_sel, db_ok)
     IN /\ clientes' = t.clientes
        /\ ui' = Ui("remover", t.ok, sess[s].id_cliente_sel, 0, 0, <<>>)
  /\ sess' = [sess EXCEPT ![s] = Ociosa]
  /\ UNCHANGED <<carros, reservas, hoje, consulta, multas, multas_carros_result>>

(* ---- "Consultar veiculos", "Registrar multa", "Atualizar status" ------- *)
\* the run of "Consultar veiculos" reads the reservations that cover the day
\* and keeps the list, empty or not, in the session state of the browser
\* session; the list stays there through the later runs of the session, on
\* this page or another, until a consultation replaces it or a fine is
\* registered
MultaConsultar(s, data_multa) ==
  /\ sess[s] = Ociosa
  /\ multas_carros_result' = [multas_carros_result EXCEPT ![s] =
                                reservas_na_data(reservas, data_multa)]
  /\ UNCHANGED <<carros, clientes, reservas, hoje, ui, consulta, sess, multas>>

\* the run of "Registrar multa" sends its INSERT for a reservation picked
\* from the list the session holds, which it does not read again ...
RegistrarMulta(s, reserva_id, db_ok) ==
  /\ sess[s] = Ociosa
  /\ Len(multas) < MaxMultas
  /\ reserva_id \in multas_carros_result[s]
  /\ multas' = insert_multa(multas, reserva_id, db_ok)
  /\ sess' = [sess EXCEPT ![s] = [pc |-> "multa_reserva", reserva_id |-> reserva_id]]
  /\ UNCHANGED <<carros, clientes, reservas, hoje, ui, consulta, multas_carros_result>>

\* ... and then the UPDATE of the reservation, shows the success message and
\* drops the list
RegistrarMultaReserva(s, db_ok) ==
  /\ sess[s].pc = "multa_reserva"
  /\ reservas' = update_reserva_status(reservas, sess[s].reserva_id,
                                       "Com Multa Pendente", db_ok)
  /\ ui' = Ui("multa", TRUE, sess[s].reserva_id, 0, 0, <<>>)
  /\ sess' = [sess EXCEPT ![s] = Ociosa]
  /\ multas_carros_result' = [multas_carros_result EXCEPT ![s] = {}]
  /\ UNCHANGED <<carros, clientes, hoje, consulta, multas>>

\* the run of "Atualizar status" reads the fines; with the status of the row
\* picked again it only shows a note ...
StatusMultaLer(s, multa_id, novo_status) ==
  /\ sess[s] = Ociosa
  /\ multa_id \in DOMAIN multas
  /\ novo_status \in StatusMultaValues
  /\ IF novo_status = multas[multa_id].status
     THEN /\ ui' = Ui("status_multa", FALSE, multa_id, 0, 0, <<>>)
          /\ sess' = sess
     ELSE /\ ui' = ui
          /\ sess' = [sess EXCEPT ![s] =
               [pc |-> "status_multa", multa_id |-> multa_id,
                reserva_id |-> multas[multa_id].reserva_id,
                status |-> multas[multa_id].status, novo_status |-> novo_status]]
  /\ UNCHANGED <<carros, clientes, reservas, hoje, consulta, multas, multas_carros_result>>

\* ... sends the UPDATE of the fine ...
StatusMultaGravar(s, db_ok) ==
  /\ sess[s].pc = "status_multa"
  /\ multas' = update_multa_status(multas, sess[s].multa_id, sess[s].novo_status, db_ok)
  /\ sess' = [sess EXCEPT ![s].pc = "status_reserva"]
  /\ UNCHANGED <<carros, clientes, reservas, hoje, ui, consulta, multas_carros_result>>

\* ... and then the UPDATE of the reservation, and shows the success message
StatusMultaReserva(s, db_ok) ==
  /\ sess[s].pc = "status_reserva"
  /\ reservas' = update_reserva_status(reservas, sess[s].reserva_id,
                                       status_reserva_da_multa(sess[s].novo_status),
                                       db_ok)
  /\ ui' = Ui("status_multa", TRUE, sess[s].multa_id, 0, 0, <<>>)
  /\ sess' = [sess EXCEPT ![s] = Ociosa]
  /\ UNCHANGED <<carros, clientes, hoje, consulta, multas, multas_carros_result>>

(* ------------------------ operator inputs ------------------------------ *)
\* the edit page opens with the stored columns as defaults
FormDaLinha(r) ==
  [km_franquia |-> r.fin.km_franquia, adiantamento |-> r.fin.adiantamento,
   pagamento_parcial_entrega |-> r.fin.pagamento_parcial_entrega,
   custo_lavagem |-> r.fin.custo_lavagem, valor_multas |-> r.fin.valor_multas,
   valor_danos |-> r.fin.valor_danos, valor_outros |-> r.fin.valor_outros,
   desconto_cliente |-> r.fin.desconto_cliente, meia_diaria |-> r.fin.meia_diaria,
   horario_entrega |-> IF r.horario_entrega # NULL THEN r.horario_entrega
                       ELSE HorarioPadrao]

\* the edit form with some of its money fields retyped
FormEditada(r, meia_diaria, desconto, adiantamento, pagamento_parcial, v_multas) ==
  [FormDaLinha(r) EXCEPT !.meia_diaria = meia_diaria,
                         !.desconto_cliente = desconto,
                         !.adiantamento = adiantamento,
                         !.pagamento_parcial_entrega = pagamento_parcial,
                         !.valor_multas = v_multas]

Extras(lavagem, v_multas, danos, outros) ==
  [custo_lavagem |-> lavagem, valor_multas |-> v_multas, valor_danos |-> danos,
   valor_outros |-> outros]

\* "Valor Recebido" opens at the amount due
ValorPagoPadrao(rid, km_volta, extras) ==
  Max(0, total_final(reservas[rid], carros[reservas[rid].carro_id].preco_km,
                     km_volta, extras))

(* ---- bookings: dates and statuses, every odometer at 0; one session
   books and returns, the other edits and delivers ------------------------ *)
Init ==
  /\ carros = [c \in Carros |-> CarroPadrao(c)]
  /\ clientes = [c \in Clientes |-> ClientePadrao(c)]
  /\ reservas = <<>>
  /\ hoje = 0
  /\ ui = NoUi
  /\ consulta = NoConsulta
  /\ sess = [s \in Sessoes |-> Ociosa]
  /\ multas = <<>>
  /\ multas_carros_result = [s \in Sessoes |-> {}]

Next ==
  \/ Tick
  \/ \E s \in Sessoes : Parar(s)
  \/ \E i \in Dias, f \in Dias : CreateDisponiveis(2, i, f, FALSE)
  \/ \E cl \in Clientes, c \in Carros : CreateClientes(2, cl, c, FALSE, 0, 0, 0)
  \/ CreateGravar(2, TRUE)
  \/ \E rid \in Ids : EditListar(1, rid)
  \/ EditCarregar(1)
  \/ EditClientes(1)
  \/ \E i \in Dias, f \in Dias : EditCarrosDf(1, i, f)
  \/ EditDisponiveis(1)
  \/ EditChecarAtual(1)
  \/ \E c \in Carros, rst \in StatusReservaValues :
       /\ sess[1].pc = "edit_veiculos"
       /\ EditCampos(1, sess[1].dados_reserva.cliente_id, c, "Ativa", rst, 0, 0,
                     FormDaLinha(sess[1].dados_reserva))
  \/ EditChecar(1)
  \/ \E falha \in FalhasEdit : EditGravar(1, falha)
  \/ \E rid \in Ids : EntregaListar(1, rid)
  \/ \E d \in Dias : EntregaCarregar(1, 0, d, 0)
  \/ \E pdf_ok \in BOOLEAN : EntregaGravar(1, pdf_ok)
  \/ \E rid \in Ids :
       DevolucaoLer(1, rid, 0, Extras(0, 0, 0, 0),
                    ValorPagoPadrao(rid, 0, Extras(0, 0, 0, 0)))
  \/ \E recibo_ok \in BOOLEAN : DevolucaoGravar(1, recibo_ok)

Spec == Init /\ [][Next]_vars

(* ---- odometers: one vehicle, one reservation, every handler that writes
   an odometer; edits, returns and fleet updates of one session next to the
   deliveries of another ------------------------------------------------- *)
KmInit ==
  /\ \E k \in Kms :
       carros = [c \in Carros |->
                   [CarroPadrao(c) EXCEPT !.km_atual = IF c = 1 THEN k ELSE 0]]
  /\ clientes = [c \in Clientes |-> ClientePadrao(c)]
  /\ reservas = <<>>
  /\ hoje = 0
  /\ ui = NoUi
  /\ consulta = NoConsulta
  /\ sess = [s \in Sessoes |-> Ociosa]
  /\ multas = <<>>
  /\ multas_carros_result = [s \in Sessoes |-> {}]

KmNext ==
  \/ \E s \in Sessoes : Parar(s)
  \/ /\ reservas = <<>>
     /\ CreateDisponiveis(1, 0, MaxDia, FALSE)
  \/ CreateClientes(1, 1, 1, FALSE, 0, 0, 0)
  \/ CreateGravar(1, TRUE)
  \/ \E rid \in Ids : EditListar(1, rid)
  \/ EditCarregar(1)
  \/ EditClientes(1)
  \/ /\ sess[1].pc = "edit_clientes"
     /\ EditCarrosDf(1, sess[1].dados_reserva.data_inicio, sess[1].dados_reserva.data_fim)
  \/ \E rst \in StatusReservaValues, kms \in Kms, kmv \in Kms :
       /\ sess[1].pc = "edit_veiculos"
       /\ EditCampos(1, sess[1].dados_reserva.cliente_id, sess[1].dados_reserva.carro_id,
                     "Ativa", rst, kms, kmv, FormDaLinha(sess[1].dados_reserva))
  \/ EditChecar(1)
  \/ \E falha \in FalhasEdit : EditGravar(1, falha)
  \/ \E rid \in Ids : EntregaListar(2, rid)
  \/ \E km \in Kms, d \in Dias : EntregaCarregar(2, km, d, 0)
  \/ \E pdf_ok \in BOOLEAN : EntregaGravar(2, pdf_ok)
  \/ \E rid \in Ids, km \in Kms, v_multas \in 0..MaxExtra :
       DevolucaoLer(1, rid, km, Extras(0, v_multas, 0, 0),
                    ValorPagoPadrao(rid, km, Extras(0, v_multas, 0, 0)))
  \/ \E recibo_ok \in BOOLEAN : DevolucaoGravar(1, recibo_ok)
  \/ \E km \in Kms \cup {-1} :
       FrotaLer(1, 1, "Fiat", "Uno", carros[1].placa, carros[1].diaria,
                carros[1].preco_km, km, carros[1].status)
  \/ FrotaGravar(1, TRUE)

SpecKm == KmInit /\ [][KmNext]_vars

(* ---- two operator sessions on the same pages -------------------------- *)
ConcNext ==
  \/ \E s \in Sessoes : Parar(s)
  \/ \E s \in Sessoes, i \in Dias, f \in Dias : CreateDisponiveis(s, i, f, FALSE)
  \/ \E s \in Sessoes, cl \in Clientes : CreateClientes(s, cl, 1, FALSE, 0, 0, 0)
  \/ \E s \in Sessoes : CreateGravar(s, TRUE)
  \/ \E s \in Sessoes, rid \in Ids : EntregaListar(s, rid)
  \/ \E s \in Sessoes, d \in Dias : EntregaCarregar(s, 0, d, 0)
  \/ \E s \in Sessoes : EntregaGravar(s, TRUE)
  \/ \E s \in Sessoes, rid \in Ids, km \in Kms :
       DevolucaoLer(s, rid, km, Extras(0, 0, 0, 0),
                    ValorPagoPadrao(rid, km, Extras(0, 0, 0, 0)))
  \/ \E s \in Sessoes, recibo_ok \in BOOLEAN : DevolucaoGravar(s, recibo_ok)

SpecConc == Init /\ [][ConcNext]_vars

(* ---- money: one reservation, every handler that writes an amount ------ *)
\* rental periods of up to MaxDia + 2 days
FinDias == 0..(MaxDia + 2)

\* the fleet is registered with an even or an odd daily rate
FinInit ==
  /\ \E d \in {DiariaPadrao - 1, DiariaPadrao} :
       carros = [c \in Carros |-> [CarroPadrao(c) EXCEPT !.diaria = d]]
  /\ clientes = [c \in Clientes |-> ClientePadrao(c)]
  /\ reservas = <<>>
  /\ hoje = 0
  /\ ui = NoUi
  /\ consulta = NoConsulta
  /\ sess = [s \in Sessoes |-> Ociosa]
  /\ multas = <<>>
  /\ multas_carros_result = [s \in Sessoes |-> {}]

FinNext ==
  \/ \E s \in Sessoes : Parar(s)
  \/ \E f \in FinDias :
       /\ reservas = <<>>
       /\ CreateDisponiveis(1, 0, f, FALSE)
  \/ \E meia \in BOOLEAN, desconto \in 0..(MaxExtra + 1), franquia \in 0..MaxKm,
        adiantamento \in 0..MaxExtra :
       CreateClientes(1, 1, 1, meia, desconto, franquia, adiantamento)
  \/ CreateGravar(1, TRUE)
  \/ \E rid \in Ids : EditListar(1, rid)
  \/ EditCarregar(1)
  \/ EditClientes(1)
  \/ /\ sess[1].pc = "edit_clientes"
     /\ EditCarrosDf(1, sess[1].dados_reserva.data_inicio, sess[1].dados_reserva.data_fim)
  \/ \E meia \in BOOLEAN, desconto \in 0..MaxExtra, adiantamento \in 0..MaxExtra,
        parcial \in 0..MaxExtra, v_multas \in 0..MaxExtra :
       /\ sess[1].pc = "edit_veiculos"
       /\ LET r == sess[1].dados_reserva
          IN EditCampos(1, r.cliente_id, r.carro_id, r.status, r.reserva_status,
                        r.km_saida, Max(r.km_volta, r.km_saida),
                        FormEditada(r, meia, desconto, adiantamento, parcial, v_multas))
  \/ EditChecar(1)
  \/ \E falha \in FalhasEdit : EditGravar(1, falha)
  \/ \E rid \in Ids : EntregaListar(1, rid)
  \/ \E pago \in 0..MaxExtra :
       /\ sess[1].pc = "entrega_lista"
       /\ EntregaCarregar(1, 0, reservas[sess[1].rid].data_inicio, pago)
  \/ EntregaGravar(1, TRUE)
  \/ \E rid \in Ids, km \in 0..(MaxKm + 1), v_multas \in 0..MaxExtra, pago \in 0..MaxExtra :
       DevolucaoLer(1, rid, km, Extras(0, v_multas, 0, 0),
                    Max(0, ValorPagoPadrao(rid, km, Extras(0, v_multas, 0, 0)) - pago))
  \/ DevolucaoGravar(1, TRUE)

SpecFin == FinInit /\ [][FinNext]_vars

(* ---- the edit page next to another session that books and blocks ------ *)
EditNext ==
  \/ \E s \in Sessoes : Parar(s)
  \/ \E i \in Dias, f \in Dias : CreateDisponiveis(2, i, f, FALSE)
  \/ \E c \in Carros : CreateClientes(2, 1, c, FALSE, 0, 0, 0)
  \/ CreateGravar(2, TRUE)
  \/ \E rid \in Ids : EditListar(1, rid)
  \/ EditCarregar(1)
  \/ EditClientes(1)
  \/ \E i \in Dias, f \in Dias : EditCarrosDf(1, i, f)
  \/ EditDisponiveis(1)
  \/ EditChecarAtual(1)
  \/ \E c \in Carros, rst \in StatusReservaValues :
       /\ sess[1].pc = "edit_veiculos"
       /\ EditCampos(1, sess[1].dados_reserva.cliente_id, c, "Ativa", rst, 0, 0,
                     FormDaLinha(sess[1].dados_reserva))
  \/ EditChecar(1)
  \/ \E falha \in FalhasEdit : EditGravar(1, falha)
  \/ \E c \in Carros, st \in {STATUS_CARRO.DISPONIVEL, STATUS_CARRO.INDISPONIVEL} :
       FrotaLer(1, c, "Fiat", "Uno", carros[c].placa, carros[c].diaria,
                carros[c].preco_km, 0, st)
  \/ FrotaGravar(1, TRUE)

SpecEdit == Init /\ [][EditNext]_vars

(* ---- fines: one session books, delivers and returns, the other works on
   "Gerenciar Multas" ---------------------------------------------------- *)
MultasNext ==
  \/ \E s \in Sessoes : Parar(s)
  \/ CreateDisponiveis(1, 0, MaxDia, FALSE)
  \/ \E c \in Carros, cl \in Clientes : CreateClientes(1, cl, c, FALSE, 0, 0, 0)
  \/ CreateGravar(1, TRUE)
  \/ \E rid \in Ids : EntregaListar(1, rid)
  \/ EntregaCarregar(1, 0, 0, 0)
  \/ EntregaGravar(1, TRUE)
  \/ \E rid \in Ids :
       DevolucaoLer(1, rid, 0, Extras(0, 0, 0, 0),
                    ValorPagoPadrao(rid, 0, Extras(0, 0, 0, 0)))
  \/ DevolucaoGravar(1, TRUE)
  \/ \E d \in Dias : MultaConsultar(2, d)
  \/ \E rid \in Ids, db_ok \in BOOLEAN : RegistrarMulta(2, rid, db_ok)
  \/ \E db_ok \in BOOLEAN : RegistrarMultaReserva(2, db_ok)
  \/ \E m \in DOMAIN multas, st \in StatusMultaValues : StatusMultaLer(2, m, st)
  \/ \E db_ok \in BOOLEAN : StatusMultaGravar(2, db_ok)
  \/ \E db_ok \in BOOLEAN : StatusMultaReserva(2, db_ok)

SpecMultas == Init /\ [][MultasNext]_vars

(* ---- fleet: "Salvar Carro", "Atualizar Dados e Status" and "Marcar como
   EXCLUIDO" of one session next to the bookings of the other ------------ *)
FrotaNext ==
  \/ \E s \in Sessoes : Parar(s)
  \/ CreateDisponiveis(1, 0, MaxDia, FALSE)
  \/ \E cl \in Clientes : CreateClientes(1, cl, 1, FALSE, 0, 0, 0)
  \/ CreateGravar(1, TRUE)
  \/ \E rid \in Ids : EntregaListar(1, rid)
  \/ EntregaCarregar(1, 0, 0, 0)
  \/ EntregaGravar(1, TRUE)
  \/ \E rid \in Ids :
       DevolucaoLer(1, rid, 0, Extras(0, 0, 0, 0),
                    ValorPagoPadrao(rid, 0, Extras(0, 0, 0, 0)))
  \/ DevolucaoGravar(1, TRUE)
  \/ \E st \in {STATUS_CARRO.DISPONIVEL, STATUS_CARRO.LOCADO},
        campos \in {<<"", "AAA0003", DiariaPadrao, TRUE>>,
                    <<"Fiat", "AAA0003", 0, TRUE>>,
                    <<"Fiat", "AAA0003", DiariaPadrao, FALSE>>,
                    <<"Fiat", "aaa0001", DiariaPadrao, TRUE>>,
                    <<"Fiat", "AAA0003", DiariaPadrao, TRUE>>} :
       SalvarCarro(campos[1], "Uno", campos[2], "Branco", 0, campos[3], PrecoKmPadrao, st,
                   "9BD", "123", campos[4])
  \/ \E st \in StatusCarroValues,
        campos \in {<<"", carros[1].placa, carros[1].diaria, 0>>,
                    <<"Fiat", carros[1].placa, carros[1].diaria, 0>>,
                    <<"Fiat", carros[1].placa, carros[1].diaria, -1>>,
                    <<"Fiat", carros[1].placa, -1, 0>>,
                    <<"Fiat", "AAA0002", carros[1].diaria, 0>>,
                    <<"Fiat", "AAA0004", carros[1].diaria, 0>>} :
       FrotaLer(2, 1, campos[1], "Uno", campos[2], campos[3], carros[1].preco_km,
                campos[4], st)
  \/ FrotaPlaca(2)
  \/ \E db_ok \in BOOLEAN : FrotaGravar(2, db_ok)
  \/ \E c \in DOMAIN carros : Excluir(c)

SpecFrota == Init /\ [][FrotaNext]_vars

(* ---- customers: "Salvar Cliente", "Atualizar Dados do Cliente" and
   "Marcar como REMOVIDO" of one session next to the bookings of the other *)
ClientesNext ==
  \/ \E s \in Sessoes : Parar(s)
  \/ CreateDisponiveis(2, 0, MaxDia, FALSE)
  \/ \E cl \in DOMAIN clientes : CreateClientes(2, cl, 1, FALSE, 0, 0, 0)
  \/ CreateGravar(2, TRUE)
  \/ \E rid \in Ids : EditListar(2, rid)
  \/ EditCarregar(2)
  \/ EditClientes(2)
  \/ /\ sess[2].pc = "edit_clientes"
     /\ EditCarrosDf(2, sess[2].dados_reserva.data_inicio, sess[2].dados_reserva.data_fim)
  \/ \E cl \in DOMAIN clientes, rst \in {STATUS_RESERVA.RESERVADA, STATUS_RESERVA.CANCELADA} :
       /\ sess[2].pc = "edit_veiculos"
       /\ EditCampos(2, cl, sess[2].dados_reserva.carro_id, "Ativa", rst, 0, 0,
                     FormDaLinha(sess[2].dados_reserva))
  \/ EditChecar(2)
  \/ \E falha \in FalhasEdit : EditGravar(2, falha)
  \/ \E campos \in {<<"", CpfDe(2), "", "MG">>,
                    <<"Ana", CpfDe(1), "", "MG">>,
                    <<"Ana", CpfDe(2), "", "">>,
                    <<"Ana", CpfDe(2), "MG1", "MG">>,
                    <<"Ana", CpfDe(2), "", "MG">>} :
       SalvarClienteCpf(1, campos[1], campos[2], "123", "3199", campos[3], campos[4],
                        MaxDia)
  \/ SalvarClienteRg(1)
  \/ \E db_ok \in BOOLEAN : SalvarClienteGravar(1, db_ok)
  \/ \E cl \in DOMAIN clientes :
       \E campos \in {<<"", "MG", clientes[cl].rg, clientes[cl].validade_cnh>>,
                       <<"Ana", "", clientes[cl].rg, clientes[cl].validade_cnh>>,
                       <<"Ana", "MG", "MG1", clientes[cl].validade_cnh>>,
                       <<"Ana", "MG", clientes[cl].rg, 0>>} :
         AtualizarClienteLer(1, cl, campos[1], "123", "3199", campos[2], campos[3],
                             campos[4])
  \/ \E db_ok \in BOOLEAN : AtualizarClienteGravar(1, db_ok)
  \/ \E cl \in DOMAIN clientes : RemoverLer(1, cl)
  \/ RemoverContar(1)
  \/ \E db_ok \in BOOLEAN : RemoverGravar(1, db_ok)

SpecClientes == Init /\ [][ClientesNext]_vars

(* ---- storage errors: run_query returns the error text ----------------- *)
ErroNext ==
  \/ Tick
  \/ \E s \in Sessoes : Parar(s)
  \/ \E i \in Dias, f \in Dias : CreateDisponiveis(1, i, f, FALSE)
  \/ \E cl \in Clientes, c \in Carros : CreateClientes(1, cl, c, FALSE, 0, 0, 0)
  \/ \E db_ok \in BOOLEAN : CreateGravar(1, db_ok)
  \/ \E rid \in Ids : EntregaListar(2, rid)
  \/ \E d \in Dias : EntregaCarregar(2, 0, d, 0)
  \/ \E pdf_ok \in BOOLEAN : EntregaGravar(2, pdf_ok)
  \/ \E rid \in Ids :
       DevolucaoLer(1, rid, 0, Extras(0, 0, 0, 0),
                    ValorPagoPadrao(rid, 0, Extras(0, 0, 0, 0)))
  \/ \E recibo_ok \in BOOLEAN : DevolucaoGravar(1, recibo_ok)

SpecErro == Init /\ [][ErroNext]_vars

(* ---- two sessions on the deliver page --------------------------------- *)
\* customers registered on day 0: "Validade da CNH" has min_value = today, so
\* a licence runs out when the days go by
EntregaInit ==
  /\ carros = [c \in Carros |-> CarroPadrao(c)]
  /\ \E v \in [Clientes -> Dias] :
       clientes = [c \in Clientes |-> [ClientePadrao(c) EXCEPT !.validade_cnh = v[c]]]
  /\ reservas = <<>>
  /\ hoje = 0
  /\ ui = NoUi
  /\ consulta = NoConsulta
  /\ sess = [s \in Sessoes |-> Ociosa]
  /\ multas = <<>>
  /\ multas_carros_result = [s \in Sessoes |-> {}]

ConcEntregaNext ==
  \/ Tick
  \/ \E s \in Sessoes : Parar(s)
  \/ CreateDisponiveis(1, 0, MaxDia, FALSE)
  \/ \E c \in Carros, cl \in Clientes : CreateClientes(1, cl, c, FALSE, 0, 0, 0)
  \/ CreateGravar(1, TRUE)
  \/ \E rid \in Ids : EditListar(1, rid)
  \/ EditCarregar(1)
  \/ EditClientes(1)
  \/ /\ sess[1].pc = "edit_clientes"
     /\ EditCarrosDf(1, sess[1].dados_reserva.data_inicio, sess[1].dados_reserva.data_fim)
  \/ /\ sess[1].pc = "edit_veiculos"
     /\ EditCampos(1, sess[1].dados_reserva.cliente_id, sess[1].dados_reserva.carro_id,
                   "Ativa", STATUS_RESERVA.CANCELADA, 0, 0,
                   FormDaLinha(sess[1].dados_reserva))
  \/ EditChecar(1)
  \/ \E falha \in FalhasEdit : EditGravar(1, falha)
  \/ \E s \in Sessoes, rid \in Ids : EntregaListar(s, rid)
  \/ \E s \in Sessoes : EntregaCarregar(s, 0, 0, 0)
  \/ \E s \in Sessoes, pdf_ok \in BOOLEAN : EntregaGravar(s, pdf_ok)
  \/ \E rid \in Ids :
       DevolucaoLer(1, rid, 0, Extras(0, 0, 0, 0),
                    ValorPagoPadrao(rid, 0, Extras(0, 0, 0, 0)))
  \/ DevolucaoGravar(1, TRUE)

SpecConcEntrega == EntregaInit /\ [][ConcEntregaNext]_vars

(* ---- the reads of one run next to the commits of another session: one
   reservation, edited on both sessions and delivered on the second ------- *)
LeiturasNext ==
  \/ \E s \in Sessoes : Parar(s)
  \/ /\ reservas = <<>>
     /\ CreateDisponiveis(2, 0, 0, FALSE)
  \/ CreateClientes(2, 1, 1, FALSE, 0, 0, 0)
  \/ CreateGravar(2, TRUE)
  \/ \E s \in Sessoes, rid \in Ids : EditListar(s, rid)
  \/ \E s \in Sessoes : EditCarregar(s)
  \/ \E s \in Sessoes : EditClientes(s)
  \/ \E s \in Sessoes, i \in Dias, f \in Dias : EditCarrosDf(s, i, f)
  \/ \E s \in Sessoes : EditDisponiveis(s)
  \/ \E s \in Sessoes : EditChecarAtual(s)
  \/ \E s \in Sessoes, c \in Carros, rst \in {STATUS_RESERVA.RESERVADA, STATUS_RESERVA.LOCADA} :
       /\ sess[s].pc = "edit_veiculos"
       /\ EditCampos(s, sess[s].dados_reserva.cliente_id, c, "Ativa", rst, 0, 0,
                     FormDaLinha(sess[s].dados_reserva))
  \/ \E s \in Sessoes : EditChecar(s)
  \/ \E s \in Sessoes, falha \in FalhasEdit : EditGravar(s, falha)
  \/ \E rid \in Ids : EntregaListar(2, rid)
  \/ \E d \in Dias : EntregaCarregar(2, 0, d, 0)
  \/ \E pdf_ok \in BOOLEAN : EntregaGravar(2, pdf_ok)

SpecLeituras == Init /\ [][LeiturasNext]_vars

(* ============================ properties =============================== *)
Booked(r) == r.reserva_status \in {STATUS_RESERVA.RESERVADA, STATUS_RESERVA.LOCADA}

\* C1: no double-booking -- two distinct reservations of one vehicle that are
\* both Reserved or Rented never have overlapping [start, end] intervals
\* (same-day turnover is never enabled in Spec).
C1_NoDoubleBooking ==
  \A a \in Ids, b \in Ids :
    (a # b /\ reservas[a].carro_id = reservas[b].carro_id
       /\ Booked(reservas[a]) /\ Booked(reservas[b]))
    => ~(reservas[a].data_inicio <= reservas[b].data_fim
         /\ reservas[a].data_fim >= reservas[b].data_inicio)

\* C2: an insert of create commits only if the target vehicle is still free
\* for the interval at the moment the insert executes, so of two concurrent
\* overlapping creates at most one commits.
C2_InsertRechecks ==
  [][Len(reservas') > Len(reservas) =>
       LET nova == reservas'[Len(reservas')]
       IN check_vehicle_availability(reservas, nova.carro_id, nova.data_inicio,
                                     nova.data_fim, 0)]_vars

Overlaps(r, ini, fim, turnover) ==
  IF turnover
  THEN r.data_inicio < fim /\ r.data_fim > ini
  ELSE r.data_inicio <= fim /\ r.data_fim >= ini

\* C3: get_available_vehicles returns exactly the vehicles that are neither
\* Unavailable nor Excluded and have no Reserved/Rented reservation overlapping
\* the request (inclusive bounds by default, strict with same-day turnover);
\* a vehicle whose reservation ends on the requested start day is left out by
\* default and offered only with the turnover flag.
C3_AvailableExact ==
  consulta.feita =>
    \A c \in Carros :
      /\ c \in consulta.resultado <=>
           /\ carros[c].status # "Indisponivel"
           /\ carros[c].status # "Excluido"
           /\ \A i \in Ids :
                (reservas[i].carro_id = c /\ Booked(reservas[i]))
                => ~Overlaps(reservas[i], consulta.data_inicio, consulta.data_fim,
                             consulta.permitir)
      /\ (\E i \in Ids : /\ reservas[i].carro_id = c /\ Booked(reservas[i])
                         /\ reservas[i].data_fim = consulta.data_inicio)
         => (c \in consulta.resultado => consulta.permitir)

\* a vehicle coming back on the requested start day, offered under turnover
C3_Witness ==
  /\ consulta.feita /\ consulta.permitir
  /\ \E c \in consulta.resultado : \E i \in Ids :
       /\ reservas[i].carro_id = c /\ Booked(reservas[i])
       /\ reservas[i].data_fim = consulta.data_inicio
       /\ reservas[i].data_inicio < consulta.data_inicio

\* what the transaction of deliver leaves in the tables cs, rs for the run
\* whose reads are held in e; the vehicle is the one of the row the run took
\* from the delivery list
EntregaFeita(cs, rs, e) ==
  /\ rs[e.rid].reserva_status = "Locada"
  /\ rs[e.rid].km_saida = e.km_confirma
  /\ rs[e.rid].data_inicio = e.data_saida
  /\ cs[e.carro_id].status = "Locado"
  /\ cs[e.carro_id].km_atual = e.km_confirma

\* C4: deliver is all-or-nothing -- after a successful deliver the vehicle is
\* Rented at the confirmed odometer and the reservation is Rented with that
\* odometer-out and the actual pickup date; a failed deliver leaves every
\* reservation and vehicle as before.
C4_EntregaAtomica ==
  [][\A s \in Sessoes :
       (sess[s].pc = "entrega" /\ sess'[s] = Ociosa) =>
         /\ ui'.op = "entrega" /\ ui'.id = sess[s].rid
         /\ ui'.ok => EntregaFeita(carros', reservas', sess[s])
         /\ ~ui'.ok => (carros' = carros /\ reservas' = reservas)]_vars

\* a deliver that failed on a reservation that is still Reserved
C4_Witness ==
  /\ ui.op = "entrega" /\ ~ui.ok
  /\ reservas[ui.id].reserva_status = "Reservada"
  /\ carros[reservas[ui.id].carro_id].status # "Locado"

\* what the transaction of return leaves in the tables cs, rs for the run
\* whose reads are held in d; the vehicle is the one of the row the run read
DevolucaoFeita(cs, rs, d) ==
  /\ rs[d.rid].reserva_status = "Finalizada"
  /\ rs[d.rid].status = "Finalizada"
  /\ rs[d.rid].km_volta = d.km_volta
  /\ rs[d.rid].data_fim = d.data_dev
  /\ rs[d.rid].fin.custo_lavagem = d.acerto.custo_lavagem
  /\ rs[d.rid].fin.valor_multas = d.acerto.valor_multas
  /\ rs[d.rid].fin.valor_danos = d.acerto.valor_danos
  /\ rs[d.rid].fin.valor_outros = d.acerto.valor_outros
  /\ rs[d.rid].fin.total_diarias = d.acerto.total_diarias
  /\ rs[d.rid].fin.valor_total = d.acerto.valor_total
  /\ rs[d.rid].fin.valor_restante = d.acerto.valor_restante
  /\ cs[d.reserva.carro_id].status = "Disponivel"
  /\ cs[d.reserva.carro_id].km_atual = d.km_volta

\* C5: return is atomic -- after a successful return both statuses of the
\* reservation are Finalized, odometer-in, extras, totals and remaining balance
\* are stored and the vehicle is Available at the returned odometer; a failed
\* return leaves every reservation and vehicle as before.
C5_DevolucaoAtomica ==
  [][\A s \in Sessoes :
       (sess[s].pc = "devolucao" /\ sess'[s] = Ociosa) =>
         /\ ui'.op = "devolucao" /\ ui'.id = sess[s].rid
         /\ ui'.ok => DevolucaoFeita(carros', reservas', sess[s])
         /\ ~ui'.ok => (carros' = carros /\ reservas' = reservas)]_vars

\* a return that failed on a reservation that is still Rented
C5_Witness ==
  /\ ui.op = "devolucao" /\ ~ui.ok
  /\ reservas[ui.id].reserva_status = "Locada"
  /\ carros[reservas[ui.id].carro_id].status = "Locado"

\* C6: a return submitted for a reservation that is already Finalized (a
\* second session read it as Rented before the first committed) changes no
\* reservation and no vehicle.
C6_DevolucaoUmaVez ==
  [][\A s \in Sessoes :
       (sess[s].pc = "devolucao" /\ sess'[s] = Ociosa
        /\ reservas[sess[s].rid].reserva_status = "Finalizada")
         => (reservas' = reservas /\ carros' = carros)]_vars

\* C7: a vehicle's current odometer never decreases.
C7_OdometroMonotono ==
  [][\A c \in DOMAIN carros : carros'[c].km_atual >= carros[c].km_atual]_vars

\* C8: return refuses an odometer-in below the recorded odometer-out, so a
\* reservation finalized by return stores odometer-in >= odometer-out.
C8_KmVoltaGeKmSaida ==
  \A i \in Ids :
    reservas[i].status = "Finalizada" =>
      /\ reservas[i].km_volta # NULL
      /\ reservas[i].km_volta >= reservas[i].km_saida

\* C9: a vehicle's status is Rented exactly when some reservation of that
\* vehicle is Rented.
C9_LocadoSync ==
  \A c \in DOMAIN carros :
    carros[c].status = "Locado"
    <=> \E i \in Ids : reservas[i].carro_id = c /\ reservas[i].reserva_status = "Locada"

\* C10: right after create commits, the vehicle of the new reservation has
\* status Reserved.
C10_CreateReservaCarro ==
  [][Len(reservas') > Len(reservas) =>
       carros'[reservas'[Len(reservas')].carro_id].status = "Reservado"]_vars

\* C11: create takes an Active customer and inserts a reservation that is
\* Reserved (operational status Active) and whose odometer-out equals the
\* vehicle's current odometer at that moment.
C11_CreateRegistraKm ==
  [][Len(reservas') > Len(reservas) =>
       LET nova == reservas'[Len(reservas')]
       IN /\ clientes[nova.cliente_id].status = STATUS_CLIENTE.ATIVO
          /\ nova.reserva_status = STATUS_RESERVA.RESERVADA
          /\ nova.status = "Ativa"
          /\ nova.km_saida = carros[nova.carro_id].km_atual]_vars

\* days = max(1, end - start); the first day counts half with the half-day flag;
\* the undiscounted charge of row r in half units: twice rate*(days-1) +
\* rate/2 under the half-day flag, else twice rate*days
DobroDaCobranca(r, diaria) ==
  LET dias == IF r.data_fim - r.data_inicio > 1 THEN r.data_fim - r.data_inicio ELSE 1
  IN IF r.fin.meia_diaria THEN 2 * diaria * (dias - 1) + diaria ELSE 2 * diaria * dias

NaoNegativo(x) == IF x > 0 THEN x ELSE 0

\* C12: the daily charge stored by create is max(0, charge - discount) with
\* days = max(1, end - start) and charge = rate*(days-1) + rate/2 under the
\* half-day flag, else rate*days; the stored grand total equals it.
C12_CreateCobranca ==
  [][Len(reservas') > Len(reservas) =>
       LET nova == reservas'[Len(reservas')]
           dobro == DobroDaCobranca(nova, carros[nova.carro_id].diaria)
       IN /\ nova.fin.total_diarias = NaoNegativo(dobro - nova.fin.desconto_cliente)
          /\ nova.fin.valor_total = nova.fin.total_diarias]_vars

\* a three-day reservation created with the half-day flag and a discount
C12_Witness ==
  \E i \in Ids :
    /\ reservas[i].reserva_status = STATUS_RESERVA.RESERVADA
    /\ carros[reservas[i].carro_id].status = STATUS_CARRO.DISPONIVEL
    /\ reservas[i].data_fim - reservas[i].data_inicio = 3
    /\ reservas[i].fin.meia_diaria
    /\ reservas[i].fin.desconto_cliente > 0
    /\ reservas[i].fin.total_diarias
         = 5 * carros[reservas[i].carro_id].diaria - reservas[i].fin.desconto_cliente

\* C13: the per-km charge of a return is max(0, (kmIn - kmOut) - allowance)
\* times the per-km rate, so the grand total persisted by return is the daily
\* total plus that charge plus the extras.
C13_CustoKmFranquia ==
  [][\A s \in Sessoes :
       (sess[s].pc = "devolucao" /\ sess'[s] = Ociosa /\ ui'.ok) =>
         LET r == reservas[sess[s].rid]
             a == sess[s].acerto
             km_cobrado == NaoNegativo((sess[s].km_volta - r.km_saida) - r.fin.km_franquia)
         IN reservas'[sess[s].rid].fin.valor_total
              = r.fin.total_diarias + 2 * km_cobrado * carros[r.carro_id].preco_km
                + a.custo_lavagem + a.valor_multas + a.valor_danos + a.valor_outros]_vars

\* C14: every reservation finalized by return stores remaining balance =
\* max(0, grand total - advance - partial payment at delivery).
C14_SaldoFinalizada ==
  \A i \in Ids :
    reservas[i].status = "Finalizada" =>
      reservas[i].fin.valor_restante
        = NaoNegativo(reservas[i].fin.valor_total - reservas[i].fin.adiantamento
                      - reservas[i].fin.pagamento_parcial_entrega)

\* C15: no reservation ever stores a negative remaining balance.
C15_SaldoNaoNegativo ==
  \A i \in Ids : reservas[i].fin.valor_restante >= 0

\* a step that commits the transaction of the edit handler
PassoDeEdit ==
  \E s \in Sessoes : sess[s].pc = "edit_gravar" /\ sess'[s] = Ociosa /\ ui'.ok

\* C18: after an edit the stored daily total is max(0, charge - discount) for
\* the current rate, dates and half-day flag, and the stored grand total is
\* max(0, charge + wash + fines + damages + other - discount), the discount
\* taken off once, whether or not the edit changed dates, flag or discount.
C18_EditCobranca ==
  [][PassoDeEdit =>
       \A i \in DOMAIN reservas' :
         LET r == reservas'[i]
             dobro == DobroDaCobranca(r, carros'[r.carro_id].diaria)
         IN /\ r.fin.total_diarias = NaoNegativo(dobro - r.fin.desconto_cliente)
            /\ r.fin.valor_total
                 = NaoNegativo(dobro + r.fin.custo_lavagem + r.fin.valor_multas
                               + r.fin.valor_danos + r.fin.valor_outros
                               - r.fin.desconto_cliente)]_vars

\* what a committed edit of reservation u.id leaves in the tables cs1, rs1,
\* given the tables cs, rs its transaction started from; the previous vehicle
\* is the one the run read with the reservation
EditFeito(cs, rs, cs1, rs1, u) ==
  LET p == u.acerto
  IN /\ rs1[u.id].carro_id = p.carro
     /\ rs1[u.id].data_inicio = p.data_inicio
     /\ rs1[u.id].data_fim = p.data_fim
     /\ rs1[u.id].reserva_status = p.reserva_status
     /\ \A j \in DOMAIN rs : j # u.id => rs1[j] = rs[j]
     /\ cs1[p.carro].status =
          (IF p.reserva_status = "Reservada" THEN "Reservado"
           ELSE IF p.reserva_status = "Locada" THEN "Locado" ELSE "Disponivel")
     /\ (p.carro # p.carro_atual => cs1[p.carro_atual].status = "Disponivel")
     /\ \A c \in DOMAIN cs : c \notin {p.carro, p.carro_atual} => cs1[c] = cs[c]

\* C16: edit applies atomically -- the row is updated, the (new) vehicle
\* becomes Reserved / Rented / Available after the new reservation status, a
\* replaced vehicle becomes Available; an edit that does not commit changes
\* no reservation and no vehicle.
C16_EditAtomico ==
  [][\A s \in Sessoes :
       (sess[s].pc = "edit_gravar" /\ sess'[s] = Ociosa) =>
         /\ ui'.op \in {"edit", "edit_erro"} /\ ui'.id = sess[s].rid
         /\ ui'.ok => /\ ui'.op = "edit"
                      /\ ui'.acerto.carro_atual = sess[s].carro_atual
                      /\ EditFeito(carros, reservas, carros', reservas', ui')
         /\ ~ui'.ok => (carros' = carros /\ reservas' = reservas)]_vars

\* a committed edit that moved a reservation to another vehicle as Rented
C16_Witness ==
  /\ ui.op = "edit" /\ ui.ok
  /\ ui.acerto.carro # ui.acerto.carro_atual
  /\ reservas[ui.id].carro_id = ui.acerto.carro
  /\ reservas[ui.id].reserva_status = "Locada"
  /\ carros[ui.acerto.carro].status = "Locado"
  /\ carros[ui.acerto.carro_atual].status = "Disponivel"

\* another Reserved/Rented reservation on the target vehicle overlaps the dates
ConflitoDeOutra(rs, rid, p) ==
  \E j \in DOMAIN rs :
    /\ j # rid
    /\ Booked(rs[j])
    /\ rs[j].carro_id = p.carro
    /\ Overlaps(rs[j], p.data_inicio, p.data_fim, FALSE)

\* C17: the validation of the save handler refuses the edit, changing no
\* reservation and no vehicle, exactly when the new end date is before the new
\* start date or another Reserved/Rented reservation on the target vehicle
\* overlaps the new dates; the edited reservation itself never blocks its own
\* edit.
C17_EditRecusado ==
  [][\A s \in Sessoes :
       (sess[s].pc = "edit" /\ sess'[s].pc # "edit") =>
         LET p == sess[s].pedido
             pedido == PedidoEdit(sess[s].carro_atual, p.carro, p.ini, p.fim, p.rstatus)
             recusado == /\ sess'[s] = Ociosa
                         /\ ui' = Ui("edit", FALSE, sess[s].rid, 0, 0, pedido)
         IN /\ recusado <=> (\/ p.fim < p.ini
                             \/ ConflitoDeOutra(reservas, sess[s].rid, pedido))
            /\ ~recusado => (sess'[s].pc = "edit_gravar" /\ ui' = ui)
            /\ carros' = carros /\ reservas' = reservas]_vars

\* an edit with well-ordered dates refused for a conflict on the target vehicle
C17_Witness ==
  /\ ui.op = "edit" /\ ~ui.ok
  /\ ui.acerto.data_fim >= ui.acerto.data_inicio
  /\ ConflitoDeOutra(reservas, ui.id, ui.acerto)
  /\ Booked(reservas[ui.id])

PendentesDe(ms, rid) ==
  {m \in DOMAIN ms : ms[m].reserva_id = rid /\ ms[m].status = "Pendente"}

\* no run of "Registrar multa" or "Atualizar status" is between its two
\* statements
SemMultaEmCurso ==
  \A s \in Sessoes : sess[s].pc \notin {"multa_reserva", "status_reserva"}

\* C19: once the runs of the fines page have sent both their statements,
\* whenever some fine of a reservation is Pending the reservation's
\* operational status is Fine-Pending.
C19_MultaPendente ==
  SemMultaEmCurso =>
    \A i \in Ids :
      PendentesDe(multas, i) # {} => reservas[i].status = "Com Multa Pendente"

\* C20: a run of "Atualizar status" that has resolved the last Pending fine of
\* a reservation, as Paid or as Exempt, leaves the reservation's operational
\* status Finalized.
C20_UltimaMultaResolvida ==
  [][\A s \in Sessoes :
       (/\ sess[s].pc = "status_reserva" /\ sess'[s] = Ociosa
        /\ sess[s].status = "Pendente"
        /\ sess[s].novo_status \in {"Paga", "Isentada"}
        /\ multas[sess[s].multa_id].status = sess[s].novo_status
        /\ PendentesDe(multas, sess[s].reserva_id) = {})
       => reservas'[sess[s].reserva_id].status = "Finalizada"]_vars

\* what a run of the exclude button did to the fleet
ExcluirFeito(c) == ui'.op = "excluir" /\ ui'.id = c /\ ui' # ui

\* C21: the exclude action on a vehicle whose status is Locado or Reservado
\* is refused and leaves the vehicle's status (and every table) unchanged.
C21_ExcluirRecusado ==
  [][\A c \in DOMAIN carros :
       (ExcluirFeito(c) /\ carros[c].status \in {STATUS_CARRO.LOCADO, STATUS_CARRO.RESERVADO})
         => /\ ~ui'.ok
            /\ carros' = carros
            /\ reservas' = reservas]_vars

\* the button was pressed on a vehicle that is out on rental, and refused
C21_Witness ==
  /\ ui.op = "excluir"
  /\ ~ui.ok
  /\ carros[ui.id].status = STATUS_CARRO.LOCADO
  /\ \E i \in Ids : reservas[i].carro_id = ui.id
                     /\ reservas[i].reserva_status = STATUS_RESERVA.LOCADA

\* C28: the exclude action on a vehicle that is neither Locado nor Reservado
\* succeeds and leaves the vehicle's row with status Excluido.
C28_ExcluirSucede ==
  [][\A c \in DOMAIN carros :
       (ExcluirFeito(c) /\ carros[c].status \notin {STATUS_CARRO.LOCADO, STATUS_CARRO.RESERVADO})
         => /\ ui'.ok
            /\ carros'[c].status = STATUS_CARRO.EXCLUIDO]_vars

\* C22: Excluido is guarded and terminal -- no step sets a vehicle to
\* Excluido while it is Locado or Reservado, and no step changes the status
\* of a vehicle that is Excluido.
C22_ExcluidoTerminal ==
  [][\A c \in DOMAIN carros :
       /\ (carros[c].status \in {STATUS_CARRO.LOCADO, STATUS_CARRO.RESERVADO}
            => carros'[c].status # STATUS_CARRO.EXCLUIDO)
       /\ (carros[c].status = STATUS_CARRO.EXCLUIDO
            => carros'[c].status = STATUS_CARRO.EXCLUIDO)]_vars

\* C23: no Removido customer holds an active reservation -- in every state a
\* reservation that is Reservada or Locada belongs to a customer whose status
\* is not Removido.
C23_RemovidoSemReservaAtiva ==
  \A i \in Ids :
    Booked(reservas[i]) => clientes[reservas[i].cliente_id].status # STATUS_CLIENTE.REMOVIDO

\* C24: every run of create, deliver or return either reports success with
\* its changes stored, or reports a failure and changes no table; a create
\* that reports success has inserted the reservation row.
C24_SucessoOuSemEfeito ==
  [][(ui' # ui /\ ui'.op \in {"create", "entrega", "devolucao"})
       => /\ ui'.ok => reservas' # reservas
          /\ (ui'.op = "create" /\ ui'.ok) => Len(reservas') = Len(reservas) + 1
          /\ ~ui'.ok => (carros' = carros /\ reservas' = reservas)]_vars

\* C25: Cancelada is terminal -- no step moves a reservation whose
\* reserva_status is Cancelada to Reservada, Locada or Finalizada.
C25_CanceladaTerminal ==
  [][\A i \in Ids :
       reservas[i].reserva_status = STATUS_RESERVA.CANCELADA
         => reservas'[i].reserva_status = STATUS_RESERVA.CANCELADA]_vars

\* C26: in every reachable state every reservation has data_fim >= data_inicio,
\* also after deliver has rewritten data_inicio to the pickup date and return
\* has rewritten data_fim to the return date (clamped to the pickup date).
C26_DatasOrdenadas ==
  \A i \in Ids : reservas[i].data_fim >= reservas[i].data_inicio

\* a return made before the pickup date: the stored end date is the pickup
\* date that deliver wrote, not today
C26_Witness ==
  /\ ui.op = "devolucao"
  /\ ui.ok
  /\ ui.data > hoje
  /\ reservas[ui.id].data_fim = ui.data
  /\ reservas[ui.id].data_inicio = ui.data
  /\ reservas[ui.id].reserva_status = STATUS_RESERVA.FINALIZADA

\* C27: a deliver commits only on a reservation that is Reservada at that
\* moment -- a run whose reservation is no longer Reservada when it writes
\* fails and changes neither the reservation nor the vehicle.
C27_EntregaSoDeReservada ==
  [][\A s \in Sessoes :
       (sess[s].pc = "entrega" /\ sess'[s] = Ociosa
        /\ reservas[sess[s].rid].reserva_status # STATUS_RESERVA.RESERVADA)
         => (carros' = carros /\ reservas' = reservas)]_vars

\* C29: at most one reservation per vehicle is Locada at any time.
C29_UmaLocadaPorCarro ==
  \A c \in DOMAIN carros :
    Cardinality({i \in Ids : /\ reservas[i].carro_id = c
                             /\ reservas[i].reserva_status = STATUS_RESERVA.LOCADA}) <= 1

\* C30: a Locada reservation always has operational status Ativa, and a
\* reservation whose operational status is Finalizada has reserva_status
\* Finalizada.
C30_LocadaSempreAtiva ==
  \A i \in Ids :
    /\ reservas[i].reserva_status = STATUS_RESERVA.LOCADA => reservas[i].status = "Ativa"
    /\ reservas[i].status = "Finalizada"
         => reservas[i].reserva_status = STATUS_RESERVA.FINALIZADA


====
